---- MODULE Spec2Model ----
(***************************************************************************)
(* A model of edb/schema/delta.py: the command container (Command), the    *)
(* command context (CommandContext), the apply protocol of the object      *)
(* commands (CreateObject, AlterObject, DeleteObject, fragments) and the   *)
(* object diffing function delta_objects.                                  *)
(*                                                                         *)
(* Five specifications share the module:                                   *)
(*   SpecCommand     the container operations of one Command               *)
(*   SpecDelta       delta_objects on bounded old/new object sets          *)
(*   SpecDeltaOrder  delta_objects with inheritance and guidance           *)
(*   Spec            apply of a command tree against a schema              *)
(*   SpecContext     the scopes and flag properties of a CommandContext    *)
(***************************************************************************)
EXTENDS Integers, Sequences, FiniteSets, TLC

VARIABLES
    \* ---- SpecCommand: one Command and the calls made on it
    cmd,        \* [ops, before_ops, attrs] of the command under test
    lastcall,   \* name of the last container call ("" before any call)
    callargs,   \* the commands the last container call was given
    raised,     \* the exception the last call raised, or "none"
    onlyADR,    \* TRUE while only add / discard / replace_all were called
    \* ---- SpecDelta: one call of delta_objects
    din,        \* the arguments: old, new, the two schemas, the guidance
    dout,       \* what the call computed, or NotRun before it ran
    \* ---- Spec: one top-level call of apply
    conf,       \* what the run was given: the command applied, the tree as
                \* built, the flags of the commands, the references of the
                \* schema's objects
    tree,       \* the before_ops, ops and attribute table of every command
    schema,     \* the schema value the fold has reached
    context,    \* the CommandContext: its stack of tokens and its settings
    frames,     \* the calls of apply in progress, outermost first
    exc,        \* the exception that is propagating, type "none" if none
    calls,      \* how many times apply was called on each command
    status,     \* "idle", "running", "returned" or "raised"
    \* ---- SpecContext: the scopes opened on one CommandContext
    made,       \* the disable_dep_verification the context was made with
    scopes,     \* the with blocks that are open, outermost first
    unwinding,  \* TRUE while an error leaves the with blocks
    ctxcall,    \* the last call made on the context and what it returned
    \* ---- SpecRename: one RenameObject applied in one context
    rconf,      \* what the run was given: the owned objects, the expression
                \* referrers in the order the schema yields them, the flags
    rschema,    \* the schema: the name of the object, of the objects it
                \* owns, and the state of the expressions that refer to it
    rcmd,       \* the ops and the attribute table of the RenameObject
    rctx,       \* the context: its value store, affected_finalization
                \* and renames
    rrun,       \* the call of apply: the place reached, what is left of
                \* its loop, the calls made so far, the exception raised
    \* ---- SpecCompile: one top-level call of compile_ddl
    ast,        \* the syntax tree: the type and the sub-statements of
                \* every node, and the node compile_ddl is given
    cstack,     \* the stack of the CommandContext
    cframes,    \* the calls of compile_ddl in progress, outermost first
    built,      \* the sub-commands of the command made for every node
    cexc,       \* the exception that is propagating, "none" if none
    cstatus,    \* "idle", "running", "returned" or "raised"
    \* ---- SpecResolve: one object, one command and one context
    oname,      \* the schema: the name the object has
    oldnames,   \* the names the object had before
    ctxrenames, \* context.renames
    attrval,    \* the raw value of the command's attribute, or None
    ctxcache,   \* the context's cache entry for (command, attribute)
    rcall,      \* the last call made and what it returned
    nrenames    \* how many renames were applied

cmdVars == <<cmd, lastcall, callargs, raised, onlyADR>>

deltaVars == <<din, dout>>

applyVars == <<conf, tree, schema, context, frames, exc, calls, status>>

ctxVars == <<made, scopes, unwinding, ctxcall>>

renameVars == <<rconf, rschema, rcmd, rctx, rrun>>

compileVars == <<ast, cstack, cframes, built, cexc, cstatus>>

resolveVars ==
    <<oname, oldnames, ctxrenames, attrval, ctxcache, rcall, nrenames>>

vars ==
    <<cmdVars, deltaVars, applyVars, ctxVars, renameVars, compileVars,
      resolveVars>>

None == "None"

(***************************************************************************)
(* Sequence helpers                                                        *)
(***************************************************************************)
Range(s) == {s[i] : i \in 1..Len(s)}

InSeq(x, s) == \E i \in 1..Len(s) : s[i] = x

IndexOf(x, s) == CHOOSE i \in 1..Len(s) : s[i] = x

Without(s, x) == SelectSeq(s, LAMBDA e : e # x)

NoDup(s) == \A i, j \in 1..Len(s) : s[i] = s[j] => i = j

\* a mutant of Reverse: the sequence as it is
Reverse_kept(s) == s

RECURSIVE Reverse(_)
Reverse(s) == IF s = <<>> THEN <<>> ELSE Append(Reverse(Tail(s)), Head(s))

(***************************************************************************)
(* edb.common.ordered.OrderedSet, as a sequence without duplicates.        *)
(* add(item) keeps the place of an item already present; add(item,         *)
(* last=True/False) also moves it to the end / the front.                  *)
(***************************************************************************)
OSAdd(s, x) == IF InSeq(x, s) THEN s ELSE Append(s, x)

OSAddMove(s, x, last) ==
    IF last THEN Append(Without(s, x), x) ELSE <<x>> \o Without(s, x)

RECURSIVE OSUpdate(_, _)
OSUpdate(s, items) ==
    IF items = <<>> THEN s
    ELSE OSUpdate(OSAdd(s, Head(items)), Tail(items))

OSDiscard(s, x) == Without(s, x)

\* replace(existing, new): the members in order with existing swapped for new
OSReplace(s, existing, new) ==
    OSUpdate(<<>>, [i \in 1..Len(s) |-> IF s[i] = existing THEN new ELSE s[i]])

(***************************************************************************)
(* The commands of SpecCommand.  s1 and s2 are two distinct                *)
(* AlterObjectProperty commands for the same property, s3 sets another     *)
(* property, c1 is an object command, g1 and g2 are CommandGroups.  Only    *)
(* the commands of PrereqCmds are ever given as prerequisites.             *)
(***************************************************************************)
SetAttrCmds == {"s1", "s2", "s3"}

\* the AlterObjectProperty commands set_attribute_value makes for the
\* id and builtin attributes of the two Create commands of Spec
IdCmds == {"id_crA", "id_crM"}
BuiltinCmds == {"builtin_crA", "builtin_crM"}
GeneratedCmds == IdCmds \cup BuiltinCmds

PlainCmds == {"c1"}
GroupCmds == {"g1", "g2"}
LeafCmds == SetAttrCmds \cup PlainCmds
AllCmds == LeafCmds \cup GroupCmds
PrereqCmds == {"c1", "s3", "g2"}
PropNames == {"p", "q", "id", "builtin"}

\* AlterObjectProperty.property
property(c) ==
    CASE c \in {"s1", "s2"} -> "p"
      [] c \in IdCmds -> "id"
      [] c \in BuiltinCmds -> "builtin"
      [] OTHER -> "q"

IsSetAttr(c) == c \in SetAttrCmds \cup GeneratedCmds

IsGroup(c) == c \in GroupCmds

\* the before_ops and ops the argument groups hold
GroupBefore(g) == IF g = "g2" THEN <<"c1">> ELSE <<>>

GroupOps(g) == IF g = "g1" THEN <<"s2", "c1">> ELSE <<"s3">>

\* Command.__init__
EmptyCommand ==
    [ops |-> <<>>, before_ops |-> <<>>, attrs |-> [n \in PropNames |-> None]]

\* Command.get_subcommands() with include_prerequisites=True, of a group
GroupSubcommands(g) == GroupBefore(g) \o GroupOps(g)

(***************************************************************************)
(* Command container operations.  Each takes the command record and        *)
(* returns [cmd |-> the record after the call, exc |-> the exception       *)
(* raised or "none"]; a call that raises keeps the assignments made        *)
(* before the raising statement.                                           *)
(***************************************************************************)
Ok(self) == [cmd |-> self, exc |-> "none"]

\* self._attrs[command.property] = command
SetAttrEntry(self, command) ==
    IF IsSetAttr(command)
    THEN [self EXCEPT !.attrs[property(command)] = command]
    ELSE self

\* a mutant of SetAttrEntry: the lookup table is not updated
SetAttrEntry_skip(self, command) == self

RECURSIVE add(_, _), update(_, _)
add(self, command) ==
    IF IsGroup(command)
    THEN update(self, GroupSubcommands(command))
    ELSE [SetAttrEntry(self, command) EXCEPT !.ops = OSAdd(@, command)]

update(self, commands) ==
    IF commands = <<>> THEN self
    ELSE update(add(self, Head(commands)), Tail(commands))

RECURSIVE prepend(_, _), prependAll(_, _)
prepend(self, command) ==
    IF IsGroup(command)
    THEN prependAll(self, Reverse(GroupSubcommands(command)))
    ELSE [SetAttrEntry(self, command) EXCEPT !.ops = OSAddMove(@, command, FALSE)]

prependAll(self, commands) ==
    IF commands = <<>> THEN self
    ELSE prependAll(prepend(self, Head(commands)), Tail(commands))

add_prerequisite(self, command) ==
    IF IsGroup(command)
    THEN [self EXCEPT !.before_ops = OSUpdate(@, GroupSubcommands(command))]
    ELSE [self EXCEPT !.before_ops = OSAdd(@, command)]

RECURSIVE prepend_prerequisite(_, _), prependPrereqAll(_, _)
prepend_prerequisite(self, command) ==
    IF IsGroup(command)
    THEN prependPrereqAll(self, Reverse(GroupSubcommands(command)))
    ELSE [self EXCEPT !.before_ops = OSAddMove(@, command, FALSE)]

prependPrereqAll(self, commands) ==
    IF commands = <<>> THEN self
    ELSE prependPrereqAll(prepend_prerequisite(self, Head(commands)),
                          Tail(commands))

\* OrderedSet.replace raises LookupError when existing is not a member
replace(self, existing, new) ==
    IF InSeq(existing, self.ops)
    THEN Ok([self EXCEPT !.ops = OSReplace(@, existing, new)])
    ELSE [cmd |-> self, exc |-> "LookupError"]

replace_all(self, commands) ==
    update([self EXCEPT !.ops = <<>>, !.attrs = [n \in PropNames |-> None]],
           commands)

\* dict.pop(key) without a default raises KeyError when the key is absent
discard(self, command) ==
    LET removed == [self EXCEPT !.ops = OSDiscard(@, command),
                                !.before_ops = OSDiscard(@, command)]
    IN  IF ~IsSetAttr(command) THEN Ok(removed)
        ELSE IF removed.attrs[property(command)] = None
             THEN [cmd |-> removed, exc |-> "KeyError"]
             ELSE Ok([removed EXCEPT !.attrs[property(command)] = None])

(***************************************************************************)
(* SpecCommand: any sequence of container calls on one command.            *)
(***************************************************************************)
\* the argument lists replace_all is called with
ReplaceAllArgs ==
    {<<>>, <<"s1">>, <<"s2", "s1">>, <<"s3", "c1">>, <<"g1">>,
     <<"c1", "s1", "s3">>}

Add ==
    \E c \in AllCmds :
        /\ cmd' = add(cmd, c)
        /\ raised' = "none"
        /\ lastcall' = "add"
        /\ callargs' = <<c>>
        /\ UNCHANGED <<deltaVars, applyVars, ctxVars, renameVars, compileVars,
                   resolveVars>>
        /\ UNCHANGED onlyADR

Prepend ==
    \E c \in AllCmds :
        /\ cmd' = prepend(cmd, c)
        /\ raised' = "none"
        /\ lastcall' = "prepend"
        /\ callargs' = <<c>>
        /\ UNCHANGED <<deltaVars, applyVars, ctxVars, renameVars, compileVars,
                   resolveVars>>
        /\ onlyADR' = FALSE

AddPrerequisite ==
    \E c \in PrereqCmds :
        /\ cmd' = add_prerequisite(cmd, c)
        /\ raised' = "none"
        /\ lastcall' = "add_prerequisite"
        /\ callargs' = <<c>>
        /\ UNCHANGED <<deltaVars, applyVars, ctxVars, renameVars, compileVars,
                   resolveVars>>
        /\ onlyADR' = FALSE

PrependPrerequisite ==
    \E c \in PrereqCmds :
        /\ cmd' = prepend_prerequisite(cmd, c)
        /\ raised' = "none"
        /\ lastcall' = "prepend_prerequisite"
        /\ callargs' = <<c>>
        /\ UNCHANGED <<deltaVars, applyVars, ctxVars, renameVars, compileVars,
                   resolveVars>>
        /\ onlyADR' = FALSE

Replace ==
    \E e, n \in LeafCmds :
        /\ cmd' = replace(cmd, e, n).cmd
        /\ raised' = replace(cmd, e, n).exc
        /\ lastcall' = "replace"
        /\ callargs' = <<e, n>>
        /\ UNCHANGED <<deltaVars, applyVars, ctxVars, renameVars, compileVars,
                   resolveVars>>
        /\ onlyADR' = FALSE

ReplaceAll ==
    \E cs \in ReplaceAllArgs :
        /\ cmd' = replace_all(cmd, cs)
        /\ raised' = "none"
        /\ lastcall' = "replace_all"
        /\ callargs' = cs
        /\ UNCHANGED <<deltaVars, applyVars, ctxVars, renameVars, compileVars,
                   resolveVars>>
        /\ UNCHANGED onlyADR

Discard ==
    \E c \in LeafCmds :
        /\ cmd' = discard(cmd, c).cmd
        /\ raised' = discard(cmd, c).exc
        /\ lastcall' = "discard"
        /\ callargs' = <<c>>
        /\ UNCHANGED <<deltaVars, applyVars, ctxVars, renameVars, compileVars,
                   resolveVars>>
        /\ UNCHANGED onlyADR

CmdNext ==
    \/ Add
    \/ Prepend
    \/ AddPrerequisite
    \/ PrependPrerequisite
    \/ Replace
    \/ ReplaceAll
    \/ Discard


(***************************************************************************)
(* Applying a command tree against a schema.                               *)
(*                                                                         *)
(* The commands: root is a DeltaRoot, grp a plain CommandGroup, crA and    *)
(* crM create the object type A and the module M, alB alters B, frB is an  *)
(* AlterObjectFragment of B, alC alters the pointer C, deC and deD delete  *)
(* the pointer C and its owner D, imC is the implicit delete of C that     *)
(* DeleteObject._canonicalize                                              *)
(* makes, s1..s3 are AlterObjectProperty commands and the id_ / builtin_   *)
(* commands are the ones set_attribute_value makes for a Create.           *)
(* The context is built with its defaults but for stdmode and              *)
(* disable_dep_verification: schema_object_ids is None, renames is empty   *)
(* and no expression of the schema refers to an altered object, so         *)
(* affected_finalization stays empty.                                      *)
(***************************************************************************)
ApplyCmds ==
    {"root", "grp", "crA", "crM", "alB", "alC", "frB", "deC", "deD", "imC",
     "s1", "s2", "s3"} \cup GeneratedCmds

Objects == {"A", "B", "C", "D", "E", "M"}

kind(c) ==
    CASE c = "root" -> "DeltaRoot"
      [] c = "grp" -> "CommandGroup"
      [] c \in {"crA", "crM"} -> "CreateObject"
      [] c \in {"alB", "alC"} -> "AlterObject"
      [] c = "frB" -> "AlterObjectFragment"
      [] c \in {"deC", "deD", "imC"} -> "DeleteObject"
      [] OTHER -> "AlterObjectProperty"

\* ObjectCommand.classname
classname(c) ==
    CASE c = "crA" -> "A"
      [] c = "crM" -> "M"
      [] c \in {"alB", "frB"} -> "B"
      [] c \in {"deC", "imC", "alC"} -> "C"
      [] c = "deD" -> "D"
      [] OTHER -> None

IsObjectCommand(c) ==
    kind(c) \in {"CreateObject", "AlterObject", "AlterObjectFragment",
                 "DeleteObject"}

\* get_schema_metaclass() of the command of an object
metaclass(o) ==
    CASE o = "M" -> "Module"
      [] o = "C" -> "Pointer"
      [] OTHER -> "ObjectType"

\* the refdict of an object type: D owns the pointer C
Owned == {<<"D", "C">>}

\* ref.init_delta_command(schema, DeleteObject)
ImplicitDelete(o) == "imC"

\* isinstance(c, modules.CreateModule) and the like, in DeltaRoot.apply
IsCreateModule(c) ==
    kind(c) = "CreateObject" /\ metaclass(classname(c)) = "Module"

IsAlterModule(c) ==
    kind(c) = "AlterObject" /\ metaclass(classname(c)) = "Module"

IsDeleteCollectionType(c) ==
    kind(c) = "DeleteObject" /\ metaclass(classname(c)) = "Collection"

(***************************************************************************)
(* The schema store: every object has the fields of PropNames; an object   *)
(* that is not in the schema has the fields of Absent.                     *)
(***************************************************************************)
Absent == [n \in PropNames |-> "absent"]

Exists(sch, o) == sch[o] # Absent

EmptySchema == [o \in Objects |-> Absent]

DefaultValue(n) ==
    CASE n = "id" -> "id1"
      [] n = "builtin" -> "user"
      [] OTHER -> "v0"

DefaultObject == [n \in PropNames |-> DefaultValue(n)]

\* AlterObjectProperty.new_value
new_value(c, stdmode) ==
    CASE c = "s1" -> "v1"
      [] c = "s2" -> "v2"
      [] c = "s3" -> "v3"
      [] c \in BuiltinCmds -> IF stdmode THEN "std" ELSE "user"
      [] OTHER -> "id1"

\* metaclass.create_in_schema(schema, **props)
create_in_schema(sch, o, props) ==
    [sch EXCEPT ![o] = [n \in PropNames |->
                           IF n \in DOMAIN props THEN props[n]
                           ELSE DefaultValue(n)]]

\* scls.update(schema, props)
object_update(sch, o, props) ==
    [sch EXCEPT ![o] = [n \in PropNames |->
                           IF n \in DOMAIN props THEN props[n] ELSE @[n]]]

\* schema.delete(scls)
schema_delete(sch, o) == [sch EXCEPT ![o] = Absent]

\* schema.get_referrers(scls)
get_referrers(sch, o) ==
    {r \in Objects : Exists(sch, r) /\ <<r, o>> \in conf.refs}

\* ref.is_blocking_ref(orig_schema, scls)
is_blocking_ref(r, o) == <<r, o>> \in conf.blocking

(***************************************************************************)
(* Command: the reads the apply protocol makes of a command.               *)
(***************************************************************************)
\* a mutant of get_subcommands: the prerequisites come last
get_subcommands_ops_first(self) == self.ops \o self.before_ops

get_subcommands(self) == self.before_ops \o self.ops

\* a mutant of get_prerequisites: no prerequisite is returned
get_prerequisites_none(self) == <<>>

get_prerequisites(self) == self.before_ops

\* get_subcommands(type=...) and the isinstance filters of the innards
OfKind(commands, kinds) == SelectSeq(commands, LAMBDA c : kind(c) \in kinds)

NotOfKind(commands, kinds) ==
    SelectSeq(commands, LAMBDA c : kind(c) \notin kinds)

\* get_subcommands(metaclass=so.Object)
ObjectCommandsOf(commands) == SelectSeq(commands, IsObjectCommand)

\* the AlterObjectProperty that set_attribute_value makes for owner
GeneratedCmd(owner, attr) ==
    CASE owner = "crA" /\ attr = "id" -> "id_crA"
      [] owner = "crA" /\ attr = "builtin" -> "builtin_crA"
      [] owner = "crM" /\ attr = "id" -> "id_crM"
      [] OTHER -> "builtin_crM"

\* set_attribute_value(attr, value) of the command owner, whose record is
\* self: a new setter is added only when the table has none for attr
set_attribute_value(self, owner, attr) ==
    IF self.attrs[attr] = None
    THEN add(self, GeneratedCmd(owner, attr))
    ELSE self

\* get_resolved_attributes: the new values of the setters in the table
get_resolved_attributes(self, stdmode) ==
    [n \in {m \in PropNames : self.attrs[m] # None} |->
        new_value(self.attrs[n], stdmode)]

(***************************************************************************)
(* CommandContext                                                          *)
(***************************************************************************)
\* CommandContextToken(schema, op)
Token(sch, op) ==
    [op |-> op, original_schema |-> sch,
     inheritance_merge |-> None, inheritance_refdicts |-> None,
     mark_derived |-> None, preserve_path_id |-> None,
     enable_recursion |-> None, transient_derivation |-> None]

\* the None that parent() returns
NoToken == Token(EmptySchema, None)

push(stk, token) == Append(stk, token)

\* a mutant of pop: the outermost token is removed
pop_outermost(stk) == Tail(stk)

\* a mutant of pop: the token stays on the stack
pop_keeps(stk) == stk

pop(stk) == SubSeq(stk, 1, Len(stk) - 1)

\* current() is called on a stack that is not empty
current(stk) == stk[Len(stk)]

\* a mutant of parent: the innermost token is taken for the enclosing one
parent_is_current(stk) == stk[Len(stk)]

parent(stk) == IF Len(stk) > 1 THEN stk[Len(stk) - 1] ELSE NoToken

\* CommandContext.canonical
canonical(stk) == \E i \in 1..Len(stk) : stk[i].op \in conf.canonical

\* a mutant of is_deleting: no object counts as being deleted
is_deleting_never(stk, obj) == FALSE

is_deleting(stk, obj) ==
    \E i \in 1..Len(stk) :
        kind(stk[i].op) = "DeleteObject" /\ classname(stk[i].op) = obj

(***************************************************************************)
(* The flag properties of the context.  A flag of a token is None or an    *)
(* override: "True" or "False", for inheritance_refdicts a set of names.   *)
(***************************************************************************)
FlagNames ==
    {"inheritance_merge", "mark_derived", "preserve_path_id",
     "inheritance_refdicts", "enable_recursion", "transient_derivation"}

FlagValues(f) ==
    IF f = "inheritance_refdicts" THEN {"{}", "{links}"}
    ELSE {"True", "False"}

\* a mutant of ScanFlag: the stack is scanned from the outermost token
RECURSIVE ScanFlag_outermost_first(_, _, _)
ScanFlag_outermost_first(stk, f, default) ==
    IF stk = <<>> THEN default
    ELSE IF Head(stk)[f] # None THEN Head(stk)[f]
    ELSE ScanFlag_outermost_first(Tail(stk), f, default)

\* for ctx in reversed(self.stack): if ctx.f is not None: return ctx.f
RECURSIVE ScanFlag(_, _, _)
ScanFlag(stk, f, default) ==
    IF stk = <<>> THEN default
    ELSE IF stk[Len(stk)][f] # None THEN stk[Len(stk)][f]
    ELSE ScanFlag(SubSeq(stk, 1, Len(stk) - 1), f, default)

inheritance_merge(stk) == ScanFlag(stk, "inheritance_merge", None)

mark_derived(stk) == ScanFlag(stk, "mark_derived", None)

preserve_path_id(stk) == ScanFlag(stk, "preserve_path_id", None)

inheritance_refdicts(stk) == ScanFlag(stk, "inheritance_refdicts", None)

enable_recursion(stk) == ScanFlag(stk, "enable_recursion", "True")

transient_derivation(stk) == ScanFlag(stk, "transient_derivation", "False")

\* the flag property of the given name
FlagProperty(stk, f) ==
    CASE f = "inheritance_merge" -> inheritance_merge(stk)
      [] f = "mark_derived" -> mark_derived(stk)
      [] f = "preserve_path_id" -> preserve_path_id(stk)
      [] f = "inheritance_refdicts" -> inheritance_refdicts(stk)
      [] f = "enable_recursion" -> enable_recursion(stk)
      [] OTHER -> transient_derivation(stk)

\* what every flag property returns on a stack
Flags(stk) == [f \in FlagNames |-> FlagProperty(stk, f)]

\* self.stack[:-offset] of Python: -0 is 0, so offset 0 gives stack[:0]
SliceBefore(stk, offset) ==
    IF offset = 0 THEN <<>>
    ELSE IF offset >= Len(stk) THEN <<>>
    ELSE SubSeq(stk, 1, Len(stk) - offset)

\* CommandContext.in_deletion
in_deletion(stk, offset) ==
    \E i \in 1..Len(SliceBefore(stk, offset)) :
        kind(SliceBefore(stk, offset)[i].op) = "DeleteObject"

\* suspend_dep_verification, up to the yield
suspend(ctx) == [ctx EXCEPT !.disable_dep_verification = TRUE]

\* a mutant of resume: the flag is set back to the default of the context
resume_default(ctx, dep_ver) == [ctx EXCEPT !.disable_dep_verification = FALSE]

\* suspend_dep_verification, the finally clause
resume(ctx, dep_ver) == [ctx EXCEPT !.disable_dep_verification = dep_ver]

(***************************************************************************)
(* The context-token classes.  A command class declares its context       *)
(* class (context_class=...) and its subclasses inherit it: the commands   *)
(* of one object type share one class, a subclass of ObjectCommandContext. *)
(***************************************************************************)
\* type(self).get_context_class(), the class of the token of a command
get_context_class(c) ==
    IF kind(c) = "DeltaRoot" THEN "DeltaRootContext"
    ELSE CASE metaclass(classname(c)) = "Module" -> "ModuleCommandContext"
           [] metaclass(classname(c)) = "Pointer" -> "PointerCommandContext"
           [] OTHER -> "ObjectTypeCommandContext"

\* isinstance(item, ctxcls)
isinstance(item, ctxcls) ==
    \/ ctxcls = "CommandContextToken"
    \/ get_context_class(item.op) = ctxcls
    \/ /\ ctxcls = "ObjectCommandContext"
       /\ get_context_class(item.op) # "DeltaRootContext"

\* a mutant of get: the stack is searched from the outermost token
RECURSIVE get_outermost(_, _)
get_outermost(stk, ctxcls) ==
    IF stk = <<>> THEN NoToken
    ELSE IF isinstance(Head(stk), ctxcls) THEN Head(stk)
    ELSE get_outermost(Tail(stk), ctxcls)

\* CommandContext.get: for item in reversed(self.stack)
RECURSIVE get(_, _)
get(stk, ctxcls) ==
    IF stk = <<>> THEN NoToken
    ELSE IF isinstance(stk[Len(stk)], ctxcls) THEN stk[Len(stk)]
    ELSE get(SubSeq(stk, 1, Len(stk) - 1), ctxcls)

\* the first loop of get_ancestor: item.op is not op
RECURSIVE get_not_owned(_, _, _)
get_not_owned(stk, ctxcls, op) ==
    IF stk = <<>> THEN NoToken
    ELSE IF isinstance(stk[Len(stk)], ctxcls) /\ stk[Len(stk)].op # op
         THEN stk[Len(stk)]
    ELSE get_not_owned(SubSeq(stk, 1, Len(stk) - 1), ctxcls, op)

\* a mutant of get_ancestor: the command given is not looked at
get_ancestor_any_owner(stk, ctxcls, op) ==
    get(SubSeq(stk, 1, Len(stk) - 1), ctxcls)

\* CommandContext.get_ancestor; without op, reversed(self.stack)[1:]
get_ancestor(stk, ctxcls, op) ==
    IF op # None THEN get_not_owned(stk, ctxcls, op)
    ELSE get(SubSeq(stk, 1, Len(stk) - 1), ctxcls)

\* no call was made on the context yet
NoCall ==
    [call |-> "none", name |-> None, offset |-> 0, result |-> None,
     flags |-> Flags(<<>>), dep_ver |-> FALSE, op |-> None,
     token |-> NoToken]

NewContext(stdmode, ddv) ==
    [stack |-> <<>>, stdmode |-> stdmode, testmode |-> FALSE,
     disable_dep_verification |-> ddv, values |-> {}]

(***************************************************************************)
(* The call stack of apply.  A frame is one call of apply: the command,    *)
(* the place reached in it, what is left of the tuple a for loop walks,    *)
(* the commands its loops have applied so far, whether its with block      *)
(* holds a token, self.scls, whether it took a short-circuit return, and   *)
(* the stack and schema it was called with.                                *)
(***************************************************************************)
NewFrame(c) ==
    [c |-> c, pc |-> "apply", todo |-> <<>>, applied |-> <<>>,
     pushed |-> FALSE, scls |-> None, skip |-> FALSE,
     stack0 |-> context.stack, schema0 |-> schema]

Top == frames[Len(frames)]

SetTop(f) == [frames EXCEPT ![Len(frames)] = f]

Running == status = "running" /\ frames # <<>> /\ exc.type = "none"

At(k, pc) == Running /\ kind(Top.c) = k /\ Top.pc = pc

NoExc == [type |-> "none", refs |-> {}, by |-> None, depth |-> 0]

\* command c raises an exception of the given type
Raise(type, c, refs) ==
    [type |-> type, refs |-> refs, by |-> c, depth |-> Len(context.stack)]

\* the places where a for loop applies the commands of todo
LoopPcs ==
    {"ops", "create_modules", "alter_modules", "objects",
     "delete_collections", "prereqs", "fragments", "innards"}

\* _validate_legal_command raises
Illegal(c) ==
    /\ ~context.stdmode
    /\ ~context.testmode
    /\ classname(c) \in conf.std

\* the top-level call of apply
Apply ==
    /\ status = "idle"
    /\ status' = "running"
    /\ frames' = <<NewFrame(conf.top)>>
    /\ calls' = [calls EXCEPT ![conf.top] = @ + 1]
    /\ UNCHANGED <<tree, conf, schema, context, exc>>
    /\ UNCHANGED <<cmdVars, deltaVars, ctxVars, renameVars, compileVars,
                   resolveVars>>

\* a for loop applies the next command of its tuple
CallNext ==
    /\ Running
    /\ Top.pc \in LoopPcs
    /\ Top.todo # <<>>
    /\ frames' = Append(SetTop([Top EXCEPT
                                    !.todo = Tail(@),
                                    !.applied = Append(@, Head(Top.todo))]),
                        NewFrame(Head(Top.todo)))
    /\ calls' = [calls EXCEPT ![Head(Top.todo)] = @ + 1]
    /\ UNCHANGED <<tree, conf, schema, context, exc, status>>
    /\ UNCHANGED <<cmdVars, deltaVars, ctxVars, renameVars, compileVars,
                   resolveVars>>

\* Command.apply, which AlterObjectProperty inherits
CommandApply ==
    /\ At("AlterObjectProperty", "apply")
    /\ frames' = SetTop([Top EXCEPT !.pc = "return"])
    /\ UNCHANGED <<tree, conf, schema, context, exc, calls, status>>
    /\ UNCHANGED <<cmdVars, deltaVars, ctxVars, renameVars, compileVars,
                   resolveVars>>

CommandGroupApply ==
    /\ At("CommandGroup", "apply")
    /\ frames' = SetTop([Top EXCEPT !.pc = "ops",
                                    !.todo = get_subcommands(tree[Top.c])])
    /\ UNCHANGED <<tree, conf, schema, context, exc, calls, status>>
    /\ UNCHANGED <<cmdVars, deltaVars, ctxVars, renameVars, compileVars,
                   resolveVars>>

\* DeltaRoot.apply enters its with block and walks the CreateModule commands
DeltaRootApply ==
    /\ At("DeltaRoot", "apply")
    /\ context' = [context EXCEPT !.stack = push(@, Token(schema, Top.c))]
    /\ frames' = SetTop([Top EXCEPT
            !.pc = "create_modules",
            !.pushed = TRUE,
            !.todo = SelectSeq(get_subcommands(tree[Top.c]), IsCreateModule)])
    /\ UNCHANGED <<tree, conf, schema, exc, calls, status>>
    /\ UNCHANGED <<cmdVars, deltaVars, ctxVars, renameVars, compileVars,
                   resolveVars>>

DeltaRootAlterModules ==
    /\ At("DeltaRoot", "create_modules")
    /\ Top.todo = <<>>
    /\ frames' = SetTop([Top EXCEPT
            !.pc = "alter_modules",
            !.todo = SelectSeq(get_subcommands(tree[Top.c]), IsAlterModule)])
    /\ UNCHANGED <<tree, conf, schema, context, exc, calls, status>>
    /\ UNCHANGED <<cmdVars, deltaVars, ctxVars, renameVars, compileVars,
                   resolveVars>>

DeltaRootObjects ==
    /\ At("DeltaRoot", "alter_modules")
    /\ Top.todo = <<>>
    /\ frames' = SetTop([Top EXCEPT
            !.pc = "objects",
            !.todo = SelectSeq(get_subcommands(tree[Top.c]),
                               LAMBDA c : /\ ~IsCreateModule(c)
                                          /\ ~IsAlterModule(c)
                                          /\ ~IsDeleteCollectionType(c))])
    /\ UNCHANGED <<tree, conf, schema, context, exc, calls, status>>
    /\ UNCHANGED <<cmdVars, deltaVars, ctxVars, renameVars, compileVars,
                   resolveVars>>

DeltaRootDeleteCollections ==
    /\ At("DeltaRoot", "objects")
    /\ Top.todo = <<>>
    /\ frames' = SetTop([Top EXCEPT
            !.pc = "delete_collections",
            !.todo = SelectSeq(get_subcommands(tree[Top.c]),
                               IsDeleteCollectionType)])
    /\ UNCHANGED <<tree, conf, schema, context, exc, calls, status>>
    /\ UNCHANGED <<cmdVars, deltaVars, ctxVars, renameVars, compileVars,
                   resolveVars>>

\* CreateObject.apply up to _create_begin
CreateObjectApply ==
    /\ At("CreateObject", "apply")
    /\ LET c == Top.c
           stk == push(context.stack, Token(schema, c))
           parent_ctx == parent(stk)
       IN  /\ context' = [context EXCEPT !.stack = stk]
           /\ IF c \in conf.if_not_exists /\ Exists(schema, classname(c))
              THEN /\ tree' = IF parent_ctx # NoToken /\ c \notin conf.canonical
                              THEN [tree EXCEPT ![parent_ctx.op] =
                                                    discard(@, c).cmd]
                              ELSE tree
                   /\ frames' = SetTop([Top EXCEPT !.pc = "return",
                                                   !.pushed = TRUE,
                                                   !.scls = classname(c),
                                                   !.skip = TRUE])
              ELSE /\ tree' = tree
                   /\ frames' = SetTop([Top EXCEPT !.pc = "begin",
                                                   !.pushed = TRUE])
    /\ UNCHANGED <<conf, schema, exc, calls, status>>
    /\ UNCHANGED <<cmdVars, deltaVars, ctxVars, renameVars, compileVars,
                   resolveVars>>

\* _create_begin: the legality check, then the prerequisites
CreateBegin ==
    /\ At("CreateObject", "begin")
    /\ IF Illegal(Top.c)
       THEN /\ exc' = Raise("SchemaDefinitionError", Top.c, {})
            /\ UNCHANGED frames
       ELSE /\ frames' = SetTop([Top EXCEPT
                    !.pc = "prereqs",
                    !.todo = get_prerequisites(tree[Top.c])])
            /\ UNCHANGED exc
    /\ UNCHANGED <<tree, conf, schema, context, calls, status>>
    /\ UNCHANGED <<cmdVars, deltaVars, ctxVars, renameVars, compileVars,
                   resolveVars>>

\* the rest of _create_begin: canonicalize_attributes sets builtin, the
\* object is created (the store refuses a name that exists) and the
\* generated id is recorded; then _create_innards takes its tuple
CreateInSchema ==
    /\ At("CreateObject", "prereqs")
    /\ Top.todo = <<>>
    /\ LET c == Top.c
           self1 == IF ~canonical(context.stack)
                    THEN set_attribute_value(tree[c], c, "builtin")
                    ELSE tree[c]
           props == get_resolved_attributes(self1, context.stdmode)
           self2 == IF "id" \notin DOMAIN props
                    THEN set_attribute_value(self1, c, "id")
                    ELSE self1
       IN  IF Exists(schema, classname(c))
           THEN /\ tree' = [tree EXCEPT ![c] = self1]
                /\ exc' = Raise("SchemaError", c, {})
                /\ UNCHANGED <<frames, schema>>
           ELSE /\ tree' = [tree EXCEPT ![c] = self2]
                /\ schema' = create_in_schema(schema, classname(c), props)
                /\ frames' = SetTop([Top EXCEPT !.pc = "innards",
                                                !.scls = classname(c),
                                                !.todo = self2.ops])
                /\ UNCHANGED exc
    /\ UNCHANGED <<conf, context, calls, status>>
    /\ UNCHANGED <<cmdVars, deltaVars, ctxVars, renameVars, compileVars,
                   resolveVars>>

\* _create_finalize
CreateFinalize ==
    /\ At("CreateObject", "innards")
    /\ Top.todo = <<>>
    /\ frames' = SetTop([Top EXCEPT !.pc = "return"])
    /\ UNCHANGED <<tree, conf, schema, context, exc, calls, status>>
    /\ UNCHANGED <<cmdVars, deltaVars, ctxVars, renameVars, compileVars,
                   resolveVars>>

\* AlterObject.apply up to _alter_begin
AlterObjectApply ==
    /\ At("AlterObject", "apply")
    /\ LET c == Top.c
           found == Exists(schema, classname(c))
           enter == /\ context' = [context EXCEPT
                            !.stack = push(@, Token(schema, c))]
                    /\ frames' = SetTop([Top EXCEPT !.pc = "begin",
                                                    !.pushed = TRUE,
                                                    !.scls = classname(c)])
                    /\ UNCHANGED <<tree, exc>>
       IN  IF ~canonical(context.stack) /\ c \in conf.if_exists
           THEN IF found THEN enter
                ELSE IF context.stack = <<>>
                THEN /\ exc' = Raise("KeyError", c, {})
                     /\ UNCHANGED <<tree, context, frames>>
                ELSE /\ tree' = [tree EXCEPT ![current(context.stack).op] =
                                                 discard(@, c).cmd]
                     /\ frames' = SetTop([Top EXCEPT !.pc = "return",
                                                     !.skip = TRUE])
                     /\ UNCHANGED <<context, exc>>
           ELSE IF found THEN enter
                ELSE /\ exc' = Raise("InvalidReferenceError", c, {})
                     /\ UNCHANGED <<tree, context, frames>>
    /\ UNCHANGED <<conf, schema, calls, status>>
    /\ UNCHANGED <<cmdVars, deltaVars, ctxVars, renameVars, compileVars,
                   resolveVars>>

\* AlterObject._alter_begin: the legality check, then the prerequisites
AlterBegin ==
    /\ At("AlterObject", "begin")
    /\ IF Illegal(Top.c)
       THEN /\ exc' = Raise("SchemaDefinitionError", Top.c, {})
            /\ UNCHANGED frames
       ELSE /\ frames' = SetTop([Top EXCEPT
                    !.pc = "prereqs",
                    !.todo = get_prerequisites(tree[Top.c])])
            /\ UNCHANGED exc
    /\ UNCHANGED <<tree, conf, schema, context, calls, status>>
    /\ UNCHANGED <<cmdVars, deltaVars, ctxVars, renameVars, compileVars,
                   resolveVars>>

\* for op in self.get_subcommands(type=AlterObjectFragment)
AlterFragments ==
    /\ At("AlterObject", "prereqs")
    /\ Top.todo = <<>>
    /\ frames' = SetTop([Top EXCEPT
            !.pc = "fragments",
            !.todo = OfKind(get_subcommands(tree[Top.c]),
                            {"AlterObjectFragment"})])
    /\ UNCHANGED <<tree, conf, schema, context, exc, calls, status>>
    /\ UNCHANGED <<cmdVars, deltaVars, ctxVars, renameVars, compileVars,
                   resolveVars>>

\* the end of _alter_begin updates the object; _alter_innards takes the
\* sub-commands that are neither fragments nor attribute setters
AlterUpdate ==
    /\ At("AlterObject", "fragments")
    /\ Top.todo = <<>>
    /\ schema' = object_update(schema, Top.scls,
                    get_resolved_attributes(tree[Top.c], context.stdmode))
    /\ frames' = SetTop([Top EXCEPT
            !.pc = "innards",
            !.todo = NotOfKind(tree[Top.c].ops,
                               {"AlterObjectFragment", "AlterObjectProperty"})])
    /\ UNCHANGED <<tree, conf, context, exc, calls, status>>
    /\ UNCHANGED <<cmdVars, deltaVars, ctxVars, renameVars, compileVars,
                   resolveVars>>

\* AlterObject._alter_finalize
AlterFinalize ==
    /\ At("AlterObject", "innards")
    /\ Top.todo = <<>>
    /\ frames' = SetTop([Top EXCEPT !.pc = "return"])
    /\ UNCHANGED <<tree, conf, schema, context, exc, calls, status>>
    /\ UNCHANGED <<cmdVars, deltaVars, ctxVars, renameVars, compileVars,
                   resolveVars>>

\* AlterObjectFragment.apply: no token is pushed; scls is the scls of the
\* command that owns the innermost token.  current() raises KeyError on
\* an empty stack; an owner that is no ObjectCommand fails the assert, or
\* the read of its scls when asserts are compiled out.
AlterObjectFragmentApply ==
    /\ At("AlterObjectFragment", "apply")
    /\ IF context.stack = <<>>
       THEN /\ exc' = Raise("KeyError", Top.c, {})
            /\ UNCHANGED frames
       ELSE IF ~IsObjectCommand(current(context.stack).op)
       THEN /\ \E type \in {"AssertionError", "AttributeError"} :
                    exc' = Raise(type, Top.c, {})
            /\ UNCHANGED frames
       ELSE /\ frames' = SetTop([Top EXCEPT
                    !.pc = "prereqs",
                    !.scls = classname(current(context.stack).op),
                    !.todo = get_prerequisites(tree[Top.c])])
            /\ UNCHANGED exc
    /\ UNCHANGED <<tree, conf, schema, context, calls, status>>
    /\ UNCHANGED <<cmdVars, deltaVars, ctxVars, renameVars, compileVars,
                   resolveVars>>

\* the end of AlterObjectFragment._alter_begin, and the tuple of its
\* _alter_innards: every sub-command that is no attribute setter
FragmentUpdate ==
    /\ At("AlterObjectFragment", "prereqs")
    /\ Top.todo = <<>>
    /\ schema' = object_update(schema, Top.scls,
                    get_resolved_attributes(tree[Top.c], context.stdmode))
    /\ frames' = SetTop([Top EXCEPT
            !.pc = "innards",
            !.todo = NotOfKind(tree[Top.c].ops, {"AlterObjectProperty"})])
    /\ UNCHANGED <<tree, conf, context, exc, calls, status>>
    /\ UNCHANGED <<cmdVars, deltaVars, ctxVars, renameVars, compileVars,
                   resolveVars>>

\* AlterObjectFragment._alter_finalize
FragmentFinalize ==
    /\ At("AlterObjectFragment", "innards")
    /\ Top.todo = <<>>
    /\ frames' = SetTop([Top EXCEPT !.pc = "return"])
    /\ UNCHANGED <<tree, conf, schema, context, exc, calls, status>>
    /\ UNCHANGED <<cmdVars, deltaVars, ctxVars, renameVars, compileVars,
                   resolveVars>>

\* DeleteObject.apply up to _delete_begin
DeleteObjectApply ==
    /\ At("DeleteObject", "apply")
    /\ LET c == Top.c
           stk == push(context.stack, Token(schema, c))
           parent_ctx == parent(stk)
       IN  IF ~Exists(schema, classname(c))
           THEN /\ exc' = Raise("InvalidReferenceError", c, {})
                /\ UNCHANGED <<tree, context, frames>>
           ELSE /\ context' = [context EXCEPT !.stack = stk]
                /\ UNCHANGED exc
                /\ IF /\ c \notin conf.canonical
                      /\ c \in conf.if_unused
                      /\ get_referrers(schema, classname(c)) # {}
                   THEN /\ tree' = IF parent_ctx # NoToken
                                   THEN [tree EXCEPT ![parent_ctx.op] =
                                                         discard(@, c).cmd]
                                   ELSE tree
                        /\ frames' = SetTop([Top EXCEPT
                                !.pc = "return",
                                !.pushed = TRUE,
                                !.scls = classname(c),
                                !.skip = TRUE])
                   ELSE /\ tree' = tree
                        /\ frames' = SetTop([Top EXCEPT
                                !.pc = "begin",
                                !.pushed = TRUE,
                                !.scls = classname(c)])
    /\ UNCHANGED <<conf, schema, calls, status>>
    /\ UNCHANGED <<cmdVars, deltaVars, ctxVars, renameVars, compileVars,
                   resolveVars>>

\* mcls.get_refdicts(): an object type has the refdict of its pointers
refdicts(scls) == IF metaclass(scls) = "ObjectType" THEN {"Pointer"} ELSE {}

\* self.get_subcommands(metaclass=refdict.ref_cls)
refcmds(self, ref_cls) ==
    SelectSeq(get_subcommands(self),
              LAMBDA op : /\ IsObjectCommand(op)
                          /\ metaclass(classname(op)) = ref_cls)

\* all_refs - deleted_refs, over the refdicts of scls
ImplicitRefs(self, sch, scls) ==
    {o \in Objects :
        /\ <<scls, o>> \in Owned
        /\ Exists(sch, o)
        /\ metaclass(o) \in refdicts(scls)
        /\ \A op \in Range(refcmds(self, metaclass(o))) : classname(op) # o}

\* schema.get(op.classname) raises for a sub-command whose object is gone
CanonicalizeFails(self, sch, scls) ==
    \E ref_cls \in refdicts(scls) :
        \E op \in Range(refcmds(self, ref_cls)) : ~Exists(sch, classname(op))

RECURSIVE SetToSeq(_)
SetToSeq(S) ==
    IF S = {} THEN <<>>
    ELSE LET o == CHOOSE x \in S : TRUE
         IN  <<o>> \o SetToSeq(S \ {o})

\* DeleteObject._canonicalize: an implicit delete for every owned object
\* that no sub-command names; an implicit delete of this model owns
\* nothing, so its own _canonicalize adds nothing to it
_canonicalize(self, sch, scls) ==
    LET refs == SetToSeq(ImplicitRefs(self, sch, scls))
    IN  [i \in 1..Len(refs) |-> ImplicitDelete(refs[i])]

\* _delete_begin: the legality check; a command run for the first time
\* outside a canonical context gets the implicit deletes of the objects
\* it owns.  _delete_innards then takes the object sub-commands.
DeleteBegin ==
    /\ At("DeleteObject", "begin")
    /\ LET c == Top.c
           canon == ~canonical(context.stack) /\ c \notin context.values
           commands == _canonicalize(tree[c], schema, Top.scls)
           self1 == IF canon THEN update(tree[c], commands) ELSE tree[c]
       IN  IF Illegal(c)
           THEN /\ exc' = Raise("SchemaDefinitionError", c, {})
                /\ UNCHANGED <<tree, context, frames>>
           ELSE IF canon /\ CanonicalizeFails(tree[c], schema, Top.scls)
           THEN /\ exc' = Raise("InvalidReferenceError", c, {})
                /\ UNCHANGED <<tree, context, frames>>
           ELSE /\ tree' = [tree EXCEPT ![c] = self1]
                /\ context' =
                    IF canon
                    THEN [context EXCEPT
                            !.values = @ \cup {c} \cup Range(commands)]
                    ELSE context
                /\ frames' = SetTop([Top EXCEPT
                        !.pc = "innards",
                        !.todo = ObjectCommandsOf(get_subcommands(self1))])
                /\ UNCHANGED exc
    /\ UNCHANGED <<conf, schema, calls, status>>
    /\ UNCHANGED <<cmdVars, deltaVars, ctxVars, renameVars, compileVars,
                   resolveVars>>

\* the referrers _delete_finalize lists in its error
ref_strs(stk, sch, scls) ==
    {ref \in get_referrers(sch, scls) :
        ~is_deleting(stk, ref) /\ is_blocking_ref(ref, scls)}

\* _delete_finalize
DeleteFinalize ==
    /\ At("DeleteObject", "innards")
    /\ Top.todo = <<>>
    /\ LET refs == IF /\ ~canonical(context.stack)
                      /\ ~context.disable_dep_verification
                   THEN ref_strs(context.stack, schema, Top.scls)
                   ELSE {}
       IN  IF refs # {}
           THEN /\ exc' = Raise("SchemaError", Top.c, refs)
                /\ UNCHANGED <<frames, schema>>
           ELSE /\ schema' = schema_delete(schema, Top.scls)
                /\ frames' = SetTop([Top EXCEPT !.pc = "return"])
                /\ UNCHANGED exc
    /\ UNCHANGED <<tree, conf, context, calls, status>>
    /\ UNCHANGED <<cmdVars, deltaVars, ctxVars, renameVars, compileVars,
                   resolveVars>>

\* the call has reached its return statement or the end of its last loop
Finished(f) ==
    \/ f.pc = "return"
    \/ kind(f.c) = "CommandGroup" /\ f.pc = "ops" /\ f.todo = <<>>
    \/ kind(f.c) = "DeltaRoot" /\ f.pc = "delete_collections" /\ f.todo = <<>>

\* apply returns: a with block pops its token on the way out
Return ==
    /\ Running
    /\ Finished(Top)
    /\ context' = IF Top.pushed
                  THEN [context EXCEPT !.stack = pop(@)]
                  ELSE context
    /\ frames' = SubSeq(frames, 1, Len(frames) - 1)
    /\ status' = IF Len(frames) = 1 THEN "returned" ELSE status
    /\ UNCHANGED <<tree, conf, schema, exc, calls>>
    /\ UNCHANGED <<cmdVars, deltaVars, ctxVars, renameVars, compileVars,
                   resolveVars>>

\* an exception leaves the innermost call: a with block pops its token
Unwind ==
    /\ status = "running"
    /\ frames # <<>>
    /\ exc.type # "none"
    /\ context' = IF Top.pushed
                  THEN [context EXCEPT !.stack = pop(@)]
                  ELSE context
    /\ frames' = SubSeq(frames, 1, Len(frames) - 1)
    /\ status' = IF Len(frames) = 1 THEN "raised" ELSE status
    /\ UNCHANGED <<tree, conf, schema, exc, calls>>
    /\ UNCHANGED <<cmdVars, deltaVars, ctxVars, renameVars, compileVars,
                   resolveVars>>

ApplyNext ==
    \/ Apply
    \/ CallNext
    \/ CommandApply
    \/ CommandGroupApply
    \/ DeltaRootApply
    \/ DeltaRootAlterModules
    \/ DeltaRootObjects
    \/ DeltaRootDeleteCollections
    \/ CreateObjectApply
    \/ CreateBegin
    \/ CreateInSchema
    \/ CreateFinalize
    \/ AlterObjectApply
    \/ AlterBegin
    \/ AlterFragments
    \/ AlterUpdate
    \/ AlterFinalize
    \/ AlterObjectFragmentApply
    \/ FragmentUpdate
    \/ FragmentFinalize
    \/ DeleteObjectApply
    \/ DeleteBegin
    \/ DeleteFinalize
    \/ Return
    \/ Unwind

(***************************************************************************)
(* The command trees, flags, schemas and contexts apply is run with.       *)
(***************************************************************************)
\* a command given its prerequisites and its sub-commands
Build(before, ops) == update([EmptyCommand EXCEPT !.before_ops = before], ops)

NoTree == [c \in ApplyCmds |-> EmptyCommand]

Leaves ==
    [NoTree EXCEPT !["crA"] = Build(<<>>, <<"s1">>)]

\* a DeltaRoot of a create, an alter with a fragment, a delete and a module
PlainTree ==
    [Leaves EXCEPT
        !["root"] = Build(<<>>, <<"crA", "alB", "deC", "crM">>),
        !["alB"] = Build(<<>>, <<"s2", "frB">>),
        !["frB"] = Build(<<>>, <<"s3">>)]

\* a CommandGroup applied on an empty stack
GroupTree ==
    [Leaves EXCEPT
        !["grp"] = Build(<<>>, <<"crA", "deC", "alB">>)]

\* an alter whose fragment holds a delete and a create
FragmentTree ==
    [Leaves EXCEPT
        !["root"] = Build(<<>>, <<"alB">>),
        !["alB"] = Build(<<"crM">>, <<"frB">>),
        !["frB"] = Build(<<"deC">>, <<"crA">>)]

\* the delete of D holds the delete of the pointer it owns
NestedDeleteTree ==
    [NoTree EXCEPT
        !["root"] = Build(<<>>, <<"deD">>),
        !["deD"] = Build(<<>>, <<"deC">>)]

\* the delete of D alone: the delete of C is implicit
ImplicitDeleteTree ==
    [Leaves EXCEPT
        !["root"] = Build(<<>>, <<"deD", "crA">>)]

\* a create, an alter and a delete with prerequisites: the create of a
\* module, a fragment, and an attribute setter with the delete of C
PrereqTree ==
    [NoTree EXCEPT
        !["root"] = Build(<<>>, <<"crA", "alB", "deD">>),
        !["crA"] = Build(<<"crM">>, <<"s1">>),
        !["alB"] = Build(<<"frB">>, <<"s2">>),
        !["deD"] = Build(<<"s3", "deC">>, <<>>)]

\* the delete of D holds an alter of the pointer it owns
AlterInDeleteTree ==
    [NoTree EXCEPT
        !["root"] = Build(<<>>, <<"deD">>),
        !["deD"] = Build(<<>>, <<"alC">>),
        !["alC"] = Build(<<>>, <<"s3">>)]

\* a CommandGroup with a prerequisite
PrereqGroupTree ==
    [Leaves EXCEPT
        !["grp"] = [Build(<<"crM">>, <<"crA", "alB">>) EXCEPT
                        !.before_ops = <<"crM", "deC">>]]

\* a fragment directly under the DeltaRoot
StrayFragmentTree ==
    [NoTree EXCEPT
        !["root"] = Build(<<>>, <<"frB">>)]

Shapes ==
    {[top |-> "root", tree |-> PlainTree],
     [top |-> "grp", tree |-> GroupTree],
     [top |-> "root", tree |-> FragmentTree],
     [top |-> "root", tree |-> NestedDeleteTree],
     [top |-> "root", tree |-> ImplicitDeleteTree],
     [top |-> "root", tree |-> StrayFragmentTree],
     [top |-> "root", tree |-> PrereqTree],
     [top |-> "root", tree |-> AlterInDeleteTree],
     [top |-> "grp", tree |-> PrereqGroupTree],
     [top |-> "frB", tree |-> NoTree]}

\* which commands carry if_not_exists, if_exists and if_unused
FlagChoices ==
    {[if_not_exists |-> {}, if_exists |-> {}, if_unused |-> {}],
     [if_not_exists |-> {"crA"}, if_exists |-> {}, if_unused |-> {}],
     [if_not_exists |-> {}, if_exists |-> {"alB"}, if_unused |-> {}],
     [if_not_exists |-> {}, if_exists |-> {}, if_unused |-> {"deC"}],
     [if_not_exists |-> {"crA"}, if_exists |-> {"alB"},
      if_unused |-> {"deC"}]}

\* which commands are canonical
CanonicalChoices == {{}, {"deC"}, {"crA"}, {"root"}}

\* the objects of A..E the schema lacks; the module M is never there
AbsentChoices == {{}, {"A"}, {"B"}, {"C"}}

\* who refers to C, and which of these references are blocking
RefChoices ==
    {[refs |-> {}, blocking |-> {}],
     [refs |-> {<<"E", "C">>}, blocking |-> {}],
     [refs |-> {<<"E", "C">>}, blocking |-> {<<"E", "C">>}],
     [refs |-> {<<"D", "C">>, <<"E", "C">>}, blocking |-> {<<"D", "C">>}],
     [refs |-> {<<"D", "C">>, <<"E", "C">>},
      blocking |-> {<<"D", "C">>, <<"E", "C">>}]}

\* the objects of a read-only module, stdmode, disable_dep_verification
ContextChoices ==
    {[std |-> {}, stdmode |-> FALSE, ddv |-> FALSE],
     [std |-> {}, stdmode |-> FALSE, ddv |-> TRUE],
     [std |-> {"C"}, stdmode |-> FALSE, ddv |-> FALSE],
     [std |-> {"C"}, stdmode |-> TRUE, ddv |-> FALSE],
     [std |-> {"A", "B"}, stdmode |-> FALSE, ddv |-> FALSE]}

NoConf ==
    [top |-> None, tree0 |-> NoTree, if_not_exists |-> {}, if_exists |-> {},
     if_unused |-> {}, canonical |-> {}, refs |-> {}, blocking |-> {},
     std |-> {}]

SchemaWithout(absent) ==
    [o \in Objects |->
        IF o \in absent \cup {"M"} THEN Absent ELSE DefaultObject]


(***************************************************************************)
(* RenameObject.  The command renames the object T inside the Alter that   *)
(* has resolved T (an AlterObjectFragment: it pushes no token).  P1 and    *)
(* P2 are objects T may own, whose names are qualified by the name of T;   *)
(* ix is an index, ptr a pointer and fn a function whose expression may    *)
(* refer to T, oth and con referrers of another kind (con a constraint).  An expression is "intact", *)
(* "dropped" (the index deleted, the default or body replaced) or          *)
(* "absent".  The Rename has no prerequisites and no sub-commands but the  *)
(* ones its own apply makes.                                               *)
(***************************************************************************)
OwnedRefs == {"P1", "P2"}

ExprRefs == {"ix", "ptr", "fn", "oth", "con"}

\* the class of a referrer, as the isinstance tests of the loop see it
refkind(d) ==
    CASE d = "ix" -> "Index"
      [] d = "ptr" -> "Pointer"
      [] d = "fn" -> "Function"
      [] OTHER -> "Other"

\* a mutant of ref_desc_append: the list holds the last referrer only
ref_desc_last(ref_desc, d) == {d}

\* ref_desc.append(f'{fdesc} of {vn}')
ref_desc_append(ref_desc, d) == ref_desc \cup {d}

\* the same Rename is applied at most MaxRuns times in its context
MaxRuns == 2

\* s_expr.get_expr_referrers(schema, scls), in the order the dict yields
get_expr_referrers(sch, order) ==
    SelectSeq(order, LAMBDA d : sch.deps[d] = "intact")

\* a mutant of get_value: the value store never has the key
get_value_unset(values, key) == FALSE

\* CommandContext.get_value(key), for the keys stored with True
get_value(values, key) == key \in values

\* CommandContext.store_value(key, True)
store_value(values, key) == values \cup {key}

\* the name setter set_attribute_value('name', ...) makes on its first call
NameSetter == [kind |-> "set", ref |-> "name", made |-> 0]

\* set_attribute_value('name', value=self.new_name, ...): a new setter is
\* added to ops and to the table, an existing one gets the value again
set_name(self) ==
    IF self.attrs = None
    THEN [ops |-> OSAdd(self.ops, NameSetter), attrs |-> "name"]
    ELSE self

\* RenameObject._canonicalize: for every object of the refdicts of scls a
\* new canonical Alter that holds the Rename of the object; refs is the
\* order the set all_refs is walked in, n tells the commands of one call
\* from those of another
rename_canonicalize(refs, n) ==
    [i \in 1..Len(refs) |-> [kind |-> "alter", ref |-> refs[i], made |-> n]]

\* the orders a set can be walked in
Orders(S) ==
    {f \in [1..Cardinality(S) -> S] :
        \A i, j \in 1..Cardinality(S) : f[i] = f[j] => i = j}

\* the objects of the refdicts of scls the schema holds
all_refs(sch) == {r \in OwnedRefs : sch.subs[r] # "absent"}

NoRenameConf ==
    [owned |-> {}, expr_refs |-> <<>>, canonical |-> FALSE, illegal |-> FALSE]

RenameSchema(c) ==
    [name |-> "old",
     subs |-> [r \in OwnedRefs |-> IF r \in c.owned THEN "old" ELSE "absent"],
     deps |-> [d \in ExprRefs |->
                 IF InSeq(d, c.expr_refs) THEN "intact" ELSE "absent"]]

\* the Rename as built, and a new CommandContext
NewRename == [ops |-> <<>>, attrs |-> None]

NewRenameContext ==
    [values |-> {}, affected_finalization |-> None, renames |-> {}]

NewRun(pc) ==
    [pc |-> pc, todo |-> <<>>, ref_desc |-> {}, runs |-> 0,
     canonicalized |-> 0, found |-> FALSE, exc |-> "none"]

\* the values of the Rename's variables where no Rename is applied
RenameIdle ==
    /\ rconf = NoRenameConf
    /\ rschema = RenameSchema(NoRenameConf)
    /\ rcmd = NewRename
    /\ rctx = NewRenameContext
    /\ rrun = NewRun("off")

\* the schema without the expressions that refer to the object
BareSchema(c) == RenameSchema([c EXCEPT !.expr_refs = <<>>])

\* RenameObject.apply up to _rename_begin; the parent Alter has resolved
\* the object under its old name, in the schema the run started with; a
\* later call is given that schema again or the one without the
\* expressions
RenameObjectApply ==
    /\ rrun.pc \in {"idle", "returned"}
    /\ rrun.runs < MaxRuns
    /\ \/ rschema' = RenameSchema(rconf)
       \/ rrun.runs > 0 /\ rschema' = BareSchema(rconf)
    /\ rctx' = [rctx EXCEPT !.renames = @ \cup {"T"}]
    /\ rrun' = [rrun EXCEPT !.pc = "begin", !.runs = @ + 1]
    /\ UNCHANGED <<rconf, rcmd>>
    /\ UNCHANGED <<cmdVars, deltaVars, applyVars, ctxVars, compileVars,
                   resolveVars>>

\* _rename_begin: the legality check, then _propagate_if_expr_refs takes
\* the referrers
RenameBegin ==
    /\ rrun.pc = "begin"
    /\ rrun' = IF rconf.illegal
               THEN [rrun EXCEPT !.pc = "raised",
                                 !.exc = "SchemaDefinitionError"]
               ELSE [rrun EXCEPT
                        !.pc = "propagate",
                        !.ref_desc = {},
                        !.found =
                            get_expr_referrers(rschema, rconf.expr_refs)
                                # <<>>,
                        !.todo = get_expr_referrers(rschema, rconf.expr_refs)]
    /\ UNCHANGED <<rconf, rschema, rcmd, rctx>>
    /\ UNCHANGED <<cmdVars, deltaVars, applyVars, ctxVars, compileVars,
                   resolveVars>>

\* one turn of the loop of _propagate_if_expr_refs: the restoration of an
\* index, pointer or function is recorded under the command and the
\* expression is dropped; another referrer is listed for the error
PropagateRef ==
    /\ rrun.pc = "propagate"
    /\ rrun.todo # <<>>
    /\ LET d == Head(rrun.todo)
       IN  IF refkind(d) \in {"Index", "Pointer", "Function"}
           THEN /\ rctx' = [rctx EXCEPT !.affected_finalization = d]
                /\ rschema' = [rschema EXCEPT !.deps[d] = "dropped"]
                /\ rrun' = [rrun EXCEPT !.todo = Tail(@)]
           ELSE /\ rrun' = [rrun EXCEPT !.todo = Tail(@),
                                        !.ref_desc =
                                            ref_desc_append(@, d)]
                /\ UNCHANGED <<rctx, rschema>>
    /\ UNCHANGED <<rconf, rcmd>>
    /\ UNCHANGED <<cmdVars, deltaVars, applyVars, ctxVars, compileVars,
                   resolveVars>>

\* the end of _propagate_if_expr_refs and the rest of _rename_begin: the
\* name setter, the cascade unless the value store says it was built, the
\* new name; _rename_innards then takes the commands that are neither
\* fragments nor setters
RenameCanonicalize ==
    /\ rrun.pc = "propagate"
    /\ rrun.todo = <<>>
    /\ IF rrun.ref_desc # {}
       THEN /\ rrun' = [rrun EXCEPT !.pc = "raised",
                                    !.exc = "SchemaDefinitionError"]
            /\ UNCHANGED <<rschema, rcmd, rctx>>
       ELSE \E refs \in Orders(all_refs(rschema)) :
            LET build == /\ ~rconf.canonical
                         /\ ~get_value(rctx.values, "renamecanon")
                named == IF rconf.canonical THEN rcmd ELSE set_name(rcmd)
                commands == IF build
                            THEN rename_canonicalize(refs,
                                                     rrun.canonicalized + 1)
                            ELSE <<>>
                self == [named EXCEPT !.ops = OSUpdate(@, commands)]
            IN  /\ rcmd' = self
                /\ rctx' = IF build
                           THEN [rctx EXCEPT
                                   !.values = store_value(@, "renamecanon")]
                           ELSE rctx
                /\ rschema' = [rschema EXCEPT !.name = "new"]
                /\ rrun' = [rrun EXCEPT
                        !.pc = "innards",
                        !.canonicalized = IF build THEN @ + 1 ELSE @,
                        !.todo = SelectSeq(self.ops,
                                           LAMBDA op : op.kind = "alter")]
    /\ UNCHANGED rconf
    /\ UNCHANGED <<cmdVars, deltaVars, applyVars, ctxVars, compileVars,
                   resolveVars>>

\* one turn of the loop of _rename_innards: a cascaded Alter resolves its
\* object under the old name and its Rename gives it the new one
RenameCascade ==
    /\ rrun.pc = "innards"
    /\ rrun.todo # <<>>
    /\ LET op == Head(rrun.todo)
       IN  IF rschema.subs[op.ref] = "old"
           THEN /\ rschema' = [rschema EXCEPT !.subs[op.ref] = "new"]
                /\ rrun' = [rrun EXCEPT !.todo = Tail(@)]
           ELSE /\ rrun' = [rrun EXCEPT !.pc = "raised",
                                        !.exc = "InvalidReferenceError"]
                /\ UNCHANGED rschema
    /\ UNCHANGED <<rconf, rcmd, rctx>>
    /\ UNCHANGED <<cmdVars, deltaVars, applyVars, ctxVars, compileVars,
                   resolveVars>>

\* _rename_finalize: _finalize_affected_refs applies the restoration that
\* affected_finalization holds for the command, if any
RenameFinalize ==
    /\ rrun.pc = "innards"
    /\ rrun.todo = <<>>
    /\ LET d == rctx.affected_finalization
       IN  IF d = None
           THEN /\ rrun' = [rrun EXCEPT !.pc = "returned"]
                /\ UNCHANGED rschema
           ELSE IF refkind(d) = "Index" /\ rschema.deps[d] = "intact"
           THEN /\ rrun' = [rrun EXCEPT !.pc = "raised",
                                        !.exc = "SchemaError"]
                /\ UNCHANGED rschema
           ELSE /\ rrun' = [rrun EXCEPT !.pc = "returned"]
                /\ rschema' = [rschema EXCEPT !.deps[d] = "intact"]
    /\ UNCHANGED <<rconf, rcmd, rctx>>
    /\ UNCHANGED <<cmdVars, deltaVars, applyVars, ctxVars, compileVars,
                   resolveVars>>

RenameNext ==
    \/ RenameObjectApply
    \/ RenameBegin
    \/ PropagateRef
    \/ RenameCanonicalize
    \/ RenameCascade
    \/ RenameFinalize

(***************************************************************************)
(* compile_ddl.  The syntax tree has the nodes n1..n4; the command made    *)
(* for a node is named by the node.  The node types: CreateObjectType and  *)
(* AlterObjectType are registered by Create and Alter classes that have a  *)
(* context class, Rename is registered by RenameObject and SetField by     *)
(* AlterObjectProperty, which have none, and nothing is registered for     *)
(* Unknown.                                                                *)
(***************************************************************************)
AstNodes == {"n1", "n2", "n3", "n4"}

_dummy_command == "_dummy_command"

\* CommandMeta._astnode_map.get(type(astnode)) and command_for_ast_node
astnode_map(type) ==
    CASE type = "CreateObjectType" -> "CreateObject"
      [] type = "AlterObjectType" -> "AlterObject"
      [] type = "Rename" -> "RenameObject"
      [] type = "SetField" -> "AlterObjectProperty"
      [] OTHER -> None

\* cmdcls.get_context_class()
cls_context_class(cmdcls) ==
    IF cmdcls \in {"CreateObject", "AlterObject"}
    THEN "ObjectTypeCommandContext"
    ELSE None

cmdcls_of(n) == astnode_map(ast.nodes[n].type)

\* ctxcls(schema, op=_dummy_command, ...): the token compile_ddl makes
CompileToken(n) ==
    [op |-> _dummy_command, cls |-> cls_context_class(cmdcls_of(n)),
     id |-> n]

\* the mutation: the token keeps the dummy command
set_ctx_op_never(stk, cmdcls, c) == stk

\* ctx.op = cmd when the innermost token is of the command's context class
set_ctx_op(stk, cmdcls, c) ==
    IF stk # <<>> /\ current(stk).cls = cls_context_class(cmdcls)
    THEN [stk EXCEPT ![Len(stk)].op = c]
    ELSE stk

\* the AlterObjectProperty that set_attribute_value('name', ...) makes
NameSetterOf(n) ==
    CASE n = "n1" -> "name_n1"
      [] n = "n2" -> "name_n2"
      [] n = "n3" -> "name_n3"
      [] n = "n4" -> "name_n4"

\* cmd.add(subcmd) for a sub-command that is not None
cmd_add(ops, subcmd) == IF subcmd = None THEN ops ELSE OSAdd(ops, subcmd)

NoAst ==
    [top |-> "n1",
     nodes |-> [n \in AstNodes |->
                   [type |-> "Unknown", field_ok |-> TRUE,
                    commands |-> <<>>]]]

CompileFrame(n) == [node |-> n, pc |-> "enter", todo |-> <<>>,
                    pushed |-> FALSE]

CompileIdle ==
    /\ ast = NoAst
    /\ cstack = <<>>
    /\ cframes = <<>>
    /\ built = [n \in AstNodes |-> <<>>]
    /\ cexc = "none"
    /\ cstatus = "off"

CTop == cframes[Len(cframes)]

SetCTop(f) == [cframes EXCEPT ![Len(cframes)] = f]

CompileAt(pc) ==
    /\ cstatus = "running"
    /\ cframes # <<>>
    /\ cexc = "none"
    /\ CTop.pc = pc

\* compile_ddl(schema, astnode) with a new context
CompileStart ==
    /\ cstatus = "idle"
    /\ cstatus' = "running"
    /\ cframes' = <<CompileFrame(ast.top)>>
    /\ UNCHANGED <<ast, cstack, built, cexc>>
    /\ UNCHANGED <<cmdVars, deltaVars, applyVars, ctxVars, renameVars,
                   resolveVars>>

\* compile_ddl up to the call of _cmd_tree_from_ast: the class lookup and,
\* for a class with a context class, the with block
CompileDdl ==
    /\ CompileAt("enter")
    /\ LET n == CTop.node
           cmdcls == cmdcls_of(n)
       IN  IF cmdcls = None
           THEN /\ cexc' = "LookupError"
                /\ UNCHANGED <<cstack, cframes>>
           ELSE IF cls_context_class(cmdcls) # None
           THEN /\ cstack' = push(cstack, CompileToken(n))
                /\ cframes' = SetCTop([CTop EXCEPT !.pc = "from_ast",
                                                   !.pushed = TRUE])
                /\ UNCHANGED cexc
           ELSE /\ cframes' = SetCTop([CTop EXCEPT !.pc = "from_ast"])
                /\ UNCHANGED <<cstack, cexc>>
    /\ UNCHANGED <<ast, built, cstatus>>
    /\ UNCHANGED <<cmdVars, deltaVars, applyVars, ctxVars, renameVars,
                   resolveVars>>

\* AlterObjectProperty._cmd_tree_from_ast: the field is looked up in the
\* class of the innermost token's op; the node's sub-statements are not
\* compiled
SetFieldFromAst ==
    /\ CompileAt("from_ast")
    /\ cmdcls_of(CTop.node) = "AlterObjectProperty"
    /\ IF cstack = <<>>
       THEN /\ cexc' = "KeyError"
            /\ UNCHANGED cframes
       ELSE IF ~ast.nodes[CTop.node].field_ok
       THEN /\ cexc' = "SchemaDefinitionError"
            /\ UNCHANGED cframes
       ELSE /\ cframes' = SetCTop([CTop EXCEPT !.pc = "return"])
            /\ UNCHANGED cexc
    /\ UNCHANGED <<ast, cstack, built, cstatus>>
    /\ UNCHANGED <<cmdVars, deltaVars, applyVars, ctxVars, renameVars,
                   resolveVars>>

\* Command._cmd_tree_from_ast up to its loop: _cmd_from_ast, which for a
\* RenameObject reads the innermost token, then ctx.op = cmd
CmdTreeFromAst ==
    /\ CompileAt("from_ast")
    /\ cmdcls_of(CTop.node) # "AlterObjectProperty"
    /\ LET n == CTop.node
       IN  IF cstack = <<>>
           THEN /\ cexc' = "KeyError"
                /\ UNCHANGED <<cstack, cframes>>
           ELSE /\ cstack' = set_ctx_op(cstack, cmdcls_of(n), n)
                /\ cframes' = SetCTop([CTop EXCEPT
                        !.pc = "commands",
                        !.todo = ast.nodes[n].commands])
                /\ UNCHANGED cexc
    /\ UNCHANGED <<ast, built, cstatus>>
    /\ UNCHANGED <<cmdVars, deltaVars, applyVars, ctxVars, renameVars,
                   resolveVars>>

\* the loop of _cmd_tree_from_ast calls compile_ddl on a sub-statement
CompileSub ==
    /\ CompileAt("commands")
    /\ CTop.todo # <<>>
    /\ cframes' = Append(cframes, CompileFrame(Head(CTop.todo)))
    /\ UNCHANGED <<ast, cstack, built, cexc, cstatus>>
    /\ UNCHANGED <<cmdVars, deltaVars, applyVars, ctxVars, renameVars,
                   resolveVars>>

\* the loop is over: CreateObject._cmd_tree_from_ast sets the name
CmdTreeDone ==
    /\ CompileAt("commands")
    /\ CTop.todo = <<>>
    /\ built' = IF cmdcls_of(CTop.node) = "CreateObject"
                THEN [built EXCEPT ![CTop.node] =
                        cmd_add(@, NameSetterOf(CTop.node))]
                ELSE built
    /\ cframes' = SetCTop([CTop EXCEPT !.pc = "return"])
    /\ UNCHANGED <<ast, cstack, cexc, cstatus>>
    /\ UNCHANGED <<cmdVars, deltaVars, applyVars, ctxVars, renameVars,
                   resolveVars>>

\* compile_ddl returns: the with block pops its token and the caller's
\* loop adds the command
CompileReturn ==
    /\ CompileAt("return")
    /\ cstack' = IF CTop.pushed THEN pop(cstack) ELSE cstack
    /\ IF Len(cframes) = 1
       THEN /\ cframes' = <<>>
            /\ cstatus' = "returned"
            /\ UNCHANGED built
       ELSE LET caller == cframes[Len(cframes) - 1]
            IN  /\ built' = [built EXCEPT ![caller.node] =
                                cmd_add(@, CTop.node)]
                /\ cframes' = [SubSeq(cframes, 1, Len(cframes) - 1)
                                EXCEPT ![Len(cframes) - 1].todo = Tail(@)]
                /\ UNCHANGED cstatus
    /\ UNCHANGED <<ast, cexc>>
    /\ UNCHANGED <<cmdVars, deltaVars, applyVars, ctxVars, renameVars,
                   resolveVars>>

\* an exception leaves the innermost call: a with block pops its token
CompileUnwind ==
    /\ cstatus = "running"
    /\ cframes # <<>>
    /\ cexc # "none"
    /\ cstack' = IF CTop.pushed THEN pop(cstack) ELSE cstack
    /\ cframes' = SubSeq(cframes, 1, Len(cframes) - 1)
    /\ cstatus' = IF Len(cframes) = 1 THEN "raised" ELSE cstatus
    /\ UNCHANGED <<ast, built, cexc>>
    /\ UNCHANGED <<cmdVars, deltaVars, applyVars, ctxVars, renameVars,
                   resolveVars>>

CompileNext ==
    \/ CompileStart
    \/ CompileDdl
    \/ SetFieldFromAst
    \/ CmdTreeFromAst
    \/ CompileSub
    \/ CmdTreeDone
    \/ CompileReturn
    \/ CompileUnwind

(***************************************************************************)
(* Resolution through the context: ObjectCommand.get_object with the       *)
(* context's rename table, and get_resolved_attribute_value with the       *)
(* context's cache.  The schema holds one object, whose name changes with  *)
(* every Rename applied; the command has one attribute.                    *)
(***************************************************************************)
ObjNames == {"a", "b", "c", "d"}

RawValues == {"v1", "v2"}

\* at most MaxRenames Renames are applied in the context
MaxRenames == 3

\* schema.get_global(metaclass, name, default=None)
get_global(sch_name, name) == IF sch_name = name THEN "obj" ELSE None

\* ObjectCommand.get_object(schema, context, default=None) of a command
\* whose classname is classname_
get_object(sch_name, renames, classname_) ==
    LET rename == renames[classname_]
        name == IF rename # None THEN rename ELSE classname_
    IN  get_global(sch_name, name)

\* _resolve_attr_value and compile_expr_field: a shell or a raw value
\* becomes the object or the compiled value it stands for
_resolve_attr_value(raw_value) ==
    CASE raw_value = "v1" -> "resolved_v1"
      [] raw_value = "v2" -> "resolved_v2"

\* context.get_cached((self, 'attribute', attr_name))
get_cached(cache) == cache

NoRCall == [method |-> "", arg |-> None, result |-> None]

ResolveIdle ==
    /\ oname = "a"
    /\ oldnames = {}
    /\ ctxrenames = [n \in ObjNames |-> None]
    /\ attrval = None
    /\ ctxcache = None
    /\ rcall = NoRCall
    /\ nrenames = MaxRenames

\* an Alter of the object under the name n that holds a Rename to m is
\* applied: the Alter resolves the object, RenameObject.apply records
\* the rename and _rename_begin gives the object its new name
ResolveRename ==
    /\ nrenames < MaxRenames
    /\ \E n \in ObjNames, m \in ObjNames \ {oname} :
        /\ get_object(oname, ctxrenames, n) # None
        /\ ctxrenames' = [ctxrenames EXCEPT ![n] = m]
        /\ oname' = m
        /\ oldnames' = (oldnames \cup {oname}) \ {m}
        /\ rcall' = [method |-> "apply", arg |-> n, result |-> None]
    /\ nrenames' = nrenames + 1
    /\ UNCHANGED <<attrval, ctxcache>>
    /\ UNCHANGED <<cmdVars, deltaVars, applyVars, ctxVars, renameVars,
                   compileVars>>

\* get_object(schema, context, default=None) of a command named n
ResolveGetObject ==
    /\ \E n \in ObjNames :
        rcall' = [method |-> "get_object", arg |-> n,
                  result |-> get_object(oname, ctxrenames, n)]
    /\ UNCHANGED <<oname, oldnames, ctxrenames, attrval, ctxcache, nrenames>>
    /\ UNCHANGED <<cmdVars, deltaVars, applyVars, ctxVars, renameVars,
                   compileVars>>

\* set_attribute_value(attr_name, value): the setter gets the value
ResolveSetAttributeValue ==
    /\ \E v \in RawValues :
        /\ attrval' = v
        /\ rcall' = [method |-> "set_attribute_value", arg |-> v,
                     result |-> None]
    /\ UNCHANGED <<oname, oldnames, ctxrenames, ctxcache, nrenames>>
    /\ UNCHANGED <<cmdVars, deltaVars, applyVars, ctxVars, renameVars,
                   compileVars>>

\* get_resolved_attribute_value(attr_name, schema=..., context=...)
ResolveGetResolvedAttributeValue ==
    /\ LET raw_value == attrval
           cached == get_cached(ctxcache)
           value == IF cached = None
                    THEN _resolve_attr_value(raw_value)
                    ELSE cached
       IN  IF raw_value = None
           THEN /\ rcall' = [method |-> "get_resolved_attribute_value",
                             arg |-> None, result |-> None]
                /\ UNCHANGED ctxcache
           ELSE /\ ctxcache' = value
                /\ rcall' = [method |-> "get_resolved_attribute_value",
                             arg |-> None, result |-> value]
    /\ UNCHANGED <<oname, oldnames, ctxrenames, attrval, nrenames>>
    /\ UNCHANGED <<cmdVars, deltaVars, applyVars, ctxVars, renameVars,
                   compileVars>>

ResolveNext ==
    \/ ResolveRename
    \/ ResolveGetObject
    \/ ResolveSetAttributeValue
    \/ ResolveGetResolvedAttributeValue

(***************************************************************************)
(* delta_objects.  Objects are identified by id; names are numbers         *)
(* ordered as the names are; a similarity is given in tenths (6 is 0.6).   *)
(***************************************************************************)
\* at most MaxObjs objects are given to one call, old and new together
MaxObjs == 4

OldIds == {"o1", "o2", "o3"}
NewIds == {"n1", "n2", "n3"}
OldSeq == <<"o1", "o2", "o3">>
NewSeq == <<"n1", "n2", "n3">>
Names == {1, 2, 3}
Scores == {0, 6, 9, 10}

\* the policy threshold 0.6 and the score of identical objects 1.0
Threshold == 6
Identical == 10

\* lexicographic order of two tuples of numbers of the same length
RECURSIVE LexLess(_, _)
LexLess(a, b) ==
    IF a = <<>> THEN FALSE
    ELSE IF Head(a) # Head(b) THEN Head(a) < Head(b)
    ELSE LexLess(Tail(a), Tail(b))

\* list.sort / sorted: a stable sort of [key, val] records by key
InsertByKey(sorted, e) ==
    LET later == {i \in 1..Len(sorted) : LexLess(e.key, sorted[i].key)}
        at == IF later = {} THEN Len(sorted) + 1
              ELSE CHOOSE i \in later : \A j \in later : i <= j
    IN  SubSeq(sorted, 1, at - 1) \o <<e>> \o SubSeq(sorted, at, Len(sorted))

RECURSIVE StableSort(_)
StableSort(items) ==
    IF items = <<>> THEN <<>>
    ELSE InsertByKey(StableSort(SubSeq(items, 1, Len(items) - 1)),
                     items[Len(items)])

Vals(items) == [i \in 1..Len(items) |-> items[i].val]

\* itertools.product(new, old)
RECURSIVE Product(_, _)
Product(xs, ys) ==
    IF xs = <<>> THEN <<>>
    ELSE [j \in 1..Len(ys) |-> <<Head(xs), ys[j]>>] \o Product(Tail(xs), ys)

\* a mutant of unchanged: no hash criteria are taken for unchanged
unchanged_none(in) == {}

\* lines 64-67: the hash criteria that occur on both sides
unchanged(in) ==
    {in.fp[in.old[i]] : i \in 1..Len(in.old)}
        \cap {in.fp[in.new[i]] : i \in 1..Len(in.new)}

\* lines 69-76: old and new without the objects whose hash criteria are unchanged
changedOld(in) ==
    LET u == unchanged(in) IN SelectSeq(in.old, LAMBDA o : in.fp[o] \notin u)

changedNew(in) ==
    LET u == unchanged(in) IN SelectSeq(in.new, LAMBDA o : in.fp[o] \notin u)

\* lines 78-80
common_names(in) ==
    {in.name[o] : o \in Range(changedOld(in))}
        \cap {in.name[o] : o \in Range(changedNew(in))}

\* line 84: the key of the first sort, False before True
PairKey(in, common, pair) == <<IF in.name[pair[1]] \notin common THEN 1 ELSE 0>>

\* lines 82-85: sorted(product(new, old), key = name of x not in common_names)
pairs(in) ==
    LET prod == Product(changedNew(in), changedOld(in))
        common == common_names(in)
    IN  Vals(StableSort([i \in 1..Len(prod) |->
                            [key |-> PairKey(in, common, prod[i]),
                             val |-> prod[i]]]))

\* a mutant of similarity: banned_alters is not looked at
similarity_unbanned(in, x, y) == in.sim[<<x, y>>]

\* lines 93-104: 0.0 for a banned alter, else y.compare(x)
similarity(in, x, y) ==
    IF /\ in.guidance.given
       /\ <<in.name[y], in.name[x]>> \in in.guidance.banned_alters
    THEN 0
    ELSE in.sim[<<x, y>>]

\* lines 87-106
full_matrix_unsorted(in) ==
    LET ps == pairs(in)
    IN  [i \in 1..Len(ps) |->
            <<ps[i][1], ps[i][2], similarity(in, ps[i][1], ps[i][2])>>]

\* a mutant of MatrixKey: the name of y takes no part in the order
MatrixKey_no_old_name(in, v) == <<Identical - v[3], in.name[v[1]]>>

\* a mutant of MatrixKey: the names take no part in the order
MatrixKey_score_only(in, v) == <<Identical - v[3]>>

\* lines 109-113: the sort key (1.0 - similarity, name of x, name of y)
MatrixKey(in, v) == <<Identical - v[3], in.name[v[1]], in.name[v[2]]>>

\* lines 108-114
full_matrix(in) ==
    LET m == full_matrix_unsorted(in)
    IN  Vals(StableSort([i \in 1..Len(m) |->
                            [key |-> MatrixKey(in, m[i]), val |-> m[i]]]))

\* lines 116-123: the greedy walk; the result is the comparison_map as the
\* sequence of the triples <<x, y, similarity>> claimed, in claiming order
RECURSIVE Claim(_, _, _, _)
Claim(matrix, seen_x, seen_y, claimed) ==
    IF matrix = <<>> THEN claimed
    ELSE LET v == Head(matrix)
         IN  IF v[1] \notin seen_x /\ v[2] \notin seen_y
             THEN Claim(Tail(matrix), seen_x \cup {v[1]}, seen_y \cup {v[2]},
                        Append(claimed, v))
             ELSE Claim(Tail(matrix), seen_x, seen_y, claimed)

comparison_map(in) == Claim(full_matrix(in), {}, {}, <<>>)

(***************************************************************************)
(* edb.common.topological.sort(graph, allow_unresolved=True): a depth      *)
(* first walk in the order of the graph's keys that lists an item after    *)
(* the dependencies it has in the graph.  A dependency that is not a key   *)
(* of the graph is ignored, and so is an edge back to an item being        *)
(* visited.                                                                *)
(***************************************************************************)
RECURSIVE visit(_, _, _, _, _), visitAll(_, _, _, _, _)
visit(in, keys, item, visiting, sorted) ==
    IF InSeq(item, sorted) \/ item \in visiting \/ ~InSeq(item, keys)
    THEN sorted
    ELSE Append(visitAll(in, keys, in.bases[item], visiting \cup {item}, sorted),
                item)

visitAll(in, keys, items, visiting, sorted) ==
    IF items = <<>> THEN sorted
    ELSE visitAll(in, keys, Tail(items), visiting,
                  visit(in, keys, Head(items), visiting, sorted))

\* a mutant of _sort_by_inheritance: the objects stay in the order given
_sort_by_inheritance_unsorted(in, objs) == objs

\* lines 202-216: the graph maps each object to its bases
_sort_by_inheritance(in, objs) == visitAll(in, objs, objs, {}, <<>>)

\* the commands as_create_delta, as_alter_delta and as_delete_delta build
CreateCmd(x) == [action |-> "create", old |-> None, new |-> x]

AlterCmd(y, x) == [action |-> "alter", old |-> y, new |-> x]

DeleteCmd(y) == [action |-> "delete", old |-> y, new |-> None]

\* the mutation: the commands are put in front of the root's ops
DeltaUpdate_front(ops, commands) == OSUpdate(commands, ops)

\* DeltaRoot.add / DeltaRoot.update on the root's ops
DeltaUpdate(ops, commands) == OSUpdate(ops, commands)

\* lines 127-140: the x of the comparison_map in the order they are visited
order_x(in, cm) ==
    LET xs == [i \in 1..Len(cm) |-> cm[i][1]]
    IN  IF in.inheriting THEN _sort_by_inheritance(in, xs) ELSE xs

\* comparison_map[x], as the triple <<x, y, similarity>>
MatchOf(cm, x) == cm[CHOOSE i \in 1..Len(cm) : cm[i][1] = x]

\* a mutant of IsAlter: the range is closed at 0.6
IsAlter_closed(s) == Threshold <= s /\ s < Identical

\* line 144: 0.6 < s < 1.0
IsAlter(s) == Threshold < s /\ s < Identical

\* a mutant of IsMatch: only an identical pair counts as matched
IsMatch_identical(s) == s >= Identical

\* lines 154 and 174: s > 0.6
IsMatch(s) == s > Threshold

\* lines 142-152
alters(in, cm) ==
    LET xs == SelectSeq(order_x(in, cm), LAMBDA x : IsAlter(MatchOf(cm, x)[3]))
    IN  [i \in 1..Len(xs) |-> AlterCmd(MatchOf(cm, xs[i])[2], xs[i])]

\* line 154
created(in, cm) ==
    LET kept == {cm[i][1] : i \in {j \in 1..Len(cm) : IsMatch(cm[j][3])}}
    IN  SelectSeq(changedNew(in), LAMBDA x : x \notin kept)

\* lines 156-169
creates(in, cm) ==
    LET xs == SelectSeq(created(in, cm),
                  LAMBDA x : \/ ~in.guidance.given
                             \/ in.name[x] \notin in.guidance.banned_creations)
    IN  [i \in 1..Len(xs) |-> CreateCmd(xs[i])]

\* line 174
deleted(in, cm) ==
    LET kept == {cm[i][2] : i \in {j \in 1..Len(cm) : IsMatch(cm[j][3])}}
    IN  SelectSeq(changedOld(in), LAMBDA y : y \notin kept)

\* lines 176-182
deleted_order(in, cm) ==
    IF in.inheriting THEN _sort_by_inheritance(in, deleted(in, cm))
    ELSE deleted(in, cm)

\* lines 184-197
deletes(in, cm) ==
    LET ys == SelectSeq(deleted_order(in, cm),
                  LAMBDA y : \/ ~in.guidance.given
                             \/ in.name[y] \notin in.guidance.banned_deletions)
    IN  [i \in 1..Len(ys) |-> DeleteCmd(ys[i])]

\* lines 52-199: the ops of the DeltaRoot returned, with the comparison_map
delta_objects(in) ==
    LET cm == comparison_map(in)
    IN  [ran |-> TRUE,
         comparison_map |-> cm,
         delta |-> DeltaUpdate(DeltaUpdate(DeltaUpdate(<<>>, creates(in, cm)),
                                           alters(in, cm)),
                               deletes(in, cm))]

(***************************************************************************)
(* SpecDelta: the arguments are chosen, then delta_objects runs once.      *)
(* Within one schema the names are distinct.                               *)
(***************************************************************************)
NoBases == [o \in OldIds \cup NewIds |-> <<>>]

\* context.guidance is None (given is FALSE): nothing is banned
NoGuidance ==
    [given |-> FALSE, banned_alters |-> {}, banned_creations |-> {},
     banned_deletions |-> {}]

NotRun == [ran |-> FALSE, comparison_map |-> <<>>, delta |-> <<>>]

\* hash_criteria: every object has its own, or n1 has the criteria of o1
DistinctFp == [o \in OldIds \cup NewIds |-> o]

FpChoices == {DistinctFp, [DistinctFp EXCEPT !["n1"] = "o1"]}

NoInput ==
    [old |-> <<>>, new |-> <<>>, name |-> [o \in OldIds \cup NewIds |-> 0],
     fp |-> DistinctFp, sim |-> [p \in NewIds \X OldIds |-> 0],
     bases |-> NoBases, inheriting |-> FALSE, guidance |-> NoGuidance]

Injective(f) == \A a, b \in DOMAIN f : f[a] = f[b] => a = b

\* the arguments with the given objects, names and similarities
DeltaInput(olds, news, nmo, nmn, sim, fp, g) ==
    [NoInput EXCEPT
        !.old = olds,
        !.new = news,
        !.name = [o \in OldIds \cup NewIds |->
                    IF o \in Range(olds) THEN nmo[o]
                    ELSE IF o \in Range(news) THEN nmn[o]
                    ELSE 0],
        !.fp = fp,
        !.sim = [p \in NewIds \X OldIds |->
                    IF p \in Range(news) \X Range(olds) THEN sim[p] ELSE 0],
        !.guidance = g]

DeltaInit ==
    /\ cmd = EmptyCommand
    /\ made = FALSE
    /\ scopes = <<>>
    /\ unwinding = FALSE
    /\ ctxcall = NoCall
    /\ RenameIdle
    /\ CompileIdle
    /\ ResolveIdle
    /\ lastcall = ""
    /\ callargs = <<>>
    /\ raised = "none"
    /\ onlyADR = TRUE
    /\ dout = NotRun
    /\ conf = NoConf
    /\ tree = NoTree
    /\ schema = EmptySchema
    /\ context = NewContext(FALSE, FALSE)
    /\ frames = <<>>
    /\ exc = NoExc
    /\ calls = [c \in ApplyCmds |-> 0]
    /\ status = "off"
    /\ \E ko \in 0..Len(OldSeq), kn \in 0..Len(NewSeq) :
         /\ ko + kn <= MaxObjs
         /\ LET olds == SubSeq(OldSeq, 1, ko)
                news == SubSeq(NewSeq, 1, kn)
            IN  \E nmo \in [Range(olds) -> Names],
                   nmn \in [Range(news) -> Names],
                   sim \in [Range(news) \X Range(olds) -> Scores],
                   fp \in FpChoices :
                   /\ Injective(nmo)
                   /\ Injective(nmn)
                   /\ din = DeltaInput(olds, news, nmo, nmn, sim, fp,
                                       NoGuidance)

DeltaObjects ==
    /\ ~dout.ran
    /\ dout' = delta_objects(din)
    /\ UNCHANGED din
    /\ UNCHANGED <<cmdVars, applyVars, ctxVars, renameVars, compileVars,
                   resolveVars>>

DeltaNext == DeltaObjects

SpecDelta == DeltaInit /\ [][DeltaNext]_vars

(***************************************************************************)
(* SpecDeltaOrder: delta_objects on inheritance-capable objects and under  *)
(* guidance.  The objects have bases in their own schema: none, a chain    *)
(* listed bases first, a chain listed derived first, a cycle, or bases     *)
(* that need not be among the objects sorted.                              *)
(***************************************************************************)
\* the scores compare returns here: no likeness, or 0.9
OrderScores == {0, 9}

\* the names of the objects: o_i and n_i named i, or the new names reversed
NameChoices ==
    {[o1 |-> 1, o2 |-> 2, o3 |-> 3, n1 |-> 1, n2 |-> 2, n3 |-> 3],
     [o1 |-> 1, o2 |-> 2, o3 |-> 3, n1 |-> 3, n2 |-> 2, n3 |-> 1]}

\* get_bases of every object
BaseChoices ==
    {NoBases,
     [NoBases EXCEPT !["o2"] = <<"o1">>, !["o3"] = <<"o2">>,
                     !["n2"] = <<"n1">>, !["n3"] = <<"n2">>],
     [NoBases EXCEPT !["o1"] = <<"o2">>, !["o2"] = <<"o3">>,
                     !["n1"] = <<"n2">>, !["n2"] = <<"n3">>],
     [NoBases EXCEPT !["o1"] = <<"o2">>, !["o2"] = <<"o1">>,
                     !["o3"] = <<"o1">>,
                     !["n1"] = <<"n2">>, !["n2"] = <<"n1">>,
                     !["n3"] = <<"n1">>],
     [NoBases EXCEPT !["o1"] = <<"o3">>, !["o2"] = <<"o1", "o3">>,
                     !["n1"] = <<"n3">>, !["n2"] = <<"n1", "n3">>]}

\* context.guidance: None, a guidance that bans nothing, or one that bans
\* the alter of name 1 into name 1, the creation of name 2 and the
\* deletion of name 2
GuidanceChoices ==
    {NoGuidance,
     [NoGuidance EXCEPT !.given = TRUE],
     [given |-> TRUE, banned_alters |-> {<<1, 1>>}, banned_creations |-> {2},
      banned_deletions |-> {2}]}

DeltaOrderInit ==
    /\ cmd = EmptyCommand
    /\ made = FALSE
    /\ scopes = <<>>
    /\ unwinding = FALSE
    /\ ctxcall = NoCall
    /\ RenameIdle
    /\ CompileIdle
    /\ ResolveIdle
    /\ lastcall = ""
    /\ callargs = <<>>
    /\ raised = "none"
    /\ onlyADR = TRUE
    /\ dout = NotRun
    /\ conf = NoConf
    /\ tree = NoTree
    /\ schema = EmptySchema
    /\ context = NewContext(FALSE, FALSE)
    /\ frames = <<>>
    /\ exc = NoExc
    /\ calls = [c \in ApplyCmds |-> 0]
    /\ status = "off"
    /\ \E ko \in 0..Len(OldSeq), kn \in 0..Len(NewSeq) :
         LET olds == SubSeq(OldSeq, 1, ko)
             news == SubSeq(NewSeq, 1, kn)
         IN  \E nm \in NameChoices,
                sim \in [Range(news) \X Range(olds) -> OrderScores],
                b \in BaseChoices,
                inh \in BOOLEAN,
                g \in GuidanceChoices :
                din = [DeltaInput(olds, news, nm, nm, sim, DistinctFp, g)
                            EXCEPT !.bases = b, !.inheriting = inh]

SpecDeltaOrder == DeltaOrderInit /\ [][DeltaNext]_vars

(***************************************************************************)
(* SpecCommand starts from a command just constructed.                     *)
(***************************************************************************)
CmdInit ==
    /\ cmd = EmptyCommand
    /\ made = FALSE
    /\ scopes = <<>>
    /\ unwinding = FALSE
    /\ ctxcall = NoCall
    /\ RenameIdle
    /\ CompileIdle
    /\ ResolveIdle
    /\ lastcall = ""
    /\ callargs = <<>>
    /\ raised = "none"
    /\ onlyADR = TRUE
    /\ din = NoInput
    /\ dout = NotRun
    /\ conf = NoConf
    /\ tree = NoTree
    /\ schema = EmptySchema
    /\ context = NewContext(FALSE, FALSE)
    /\ frames = <<>>
    /\ exc = NoExc
    /\ calls = [c \in ApplyCmds |-> 0]
    /\ status = "off"

SpecCommand == CmdInit /\ [][CmdNext]_vars

(***************************************************************************)
(* Spec: one top-level apply of a command tree on a fresh context.         *)
(***************************************************************************)
ApplyInit ==
    /\ cmd = EmptyCommand
    /\ made = FALSE
    /\ scopes = <<>>
    /\ unwinding = FALSE
    /\ ctxcall = NoCall
    /\ RenameIdle
    /\ CompileIdle
    /\ ResolveIdle
    /\ lastcall = ""
    /\ callargs = <<>>
    /\ raised = "none"
    /\ onlyADR = TRUE
    /\ din = NoInput
    /\ dout = NotRun
    /\ frames = <<>>
    /\ exc = NoExc
    /\ calls = [c \in ApplyCmds |-> 0]
    /\ status = "idle"
    /\ \E sh \in Shapes, fl \in FlagChoices, cn \in CanonicalChoices,
          ab \in AbsentChoices, rf \in RefChoices, cx \in ContextChoices :
          /\ conf = [top |-> sh.top, tree0 |-> sh.tree,
                     if_not_exists |-> fl.if_not_exists,
                     if_exists |-> fl.if_exists,
                     if_unused |-> fl.if_unused,
                     canonical |-> cn, refs |-> rf.refs,
                     blocking |-> rf.blocking, std |-> cx.std]
          /\ tree = sh.tree
          /\ schema = SchemaWithout(ab)
          /\ context = NewContext(cx.stdmode, cx.ddv)

Spec == ApplyInit /\ [][ApplyNext]_vars

(***************************************************************************)
(* SpecContext: with blocks are opened and left on one CommandContext:     *)
(* `with context(token)` pushes a token, and the code in the block may     *)
(* set the flags of its token; `with context.suspend_dep_verification()`   *)
(* suspends the dependency verification.  A block is left at its end or    *)
(* by an error, which leaves the enclosing blocks too until it is caught.  *)
(* The flag properties and in_deletion are read in between.                *)
(***************************************************************************)
\* at most MaxScopes with blocks are open at a time
MaxScopes == 2

\* at most MaxOverrides flags are overridden on the stack at a time
MaxOverrides == 2

\* the offsets in_deletion is called with
Offsets == 0..2

\* the commands whose tokens are pushed
ScopeCmds == {"alB", "deC"}

\* the context classes get and get_ancestor are asked for
CtxClasses == {"PointerCommandContext", "ObjectCommandContext"}

Overrides(stk) ==
    Cardinality({<<i, f>> \in (1..Len(stk)) \X FlagNames : stk[i][f] # None})

Str(b) == IF b THEN "True" ELSE "False"

ContextInit ==
    /\ cmd = EmptyCommand
    /\ lastcall = ""
    /\ callargs = <<>>
    /\ raised = "none"
    /\ onlyADR = TRUE
    /\ din = NoInput
    /\ dout = NotRun
    /\ conf = NoConf
    /\ tree = NoTree
    /\ schema = EmptySchema
    /\ frames = <<>>
    /\ exc = NoExc
    /\ calls = [c \in ApplyCmds |-> 0]
    /\ status = "off"
    /\ scopes = <<>>
    /\ unwinding = FALSE
    /\ ctxcall = NoCall
    /\ RenameIdle
    /\ CompileIdle
    /\ ResolveIdle
    /\ made \in BOOLEAN
    /\ context = NewContext(FALSE, made)

\* CommandContextWrapper.__enter__
CtxEnter ==
    /\ ~unwinding
    /\ Len(scopes) < MaxScopes
    /\ \E op \in ScopeCmds :
        context' = [context EXCEPT !.stack = push(@, Token(EmptySchema, op))]
    /\ scopes' = Append(scopes, [kind |-> "token",
                                 flags |-> Flags(context.stack),
                                 dep_ver |-> context.disable_dep_verification])
    /\ ctxcall' = [NoCall EXCEPT !.call = "push"]
    /\ UNCHANGED <<made, unwinding>>
    /\ UNCHANGED <<conf, tree, schema, frames, exc, calls, status>>
    /\ UNCHANGED <<cmdVars, deltaVars, renameVars, compileVars,
                   resolveVars>>

\* the code of a `with context(token) as ctx` block sets a flag of ctx
CtxSetFlag ==
    /\ ~unwinding
    /\ scopes # <<>>
    /\ scopes[Len(scopes)].kind = "token"
    /\ \E f \in FlagNames :
        \E v \in FlagValues(f) \cup {None} :
            LET stk == [context.stack EXCEPT ![Len(context.stack)][f] = v]
            IN  /\ Overrides(stk) <= MaxOverrides
                /\ context' = [context EXCEPT !.stack = stk]
                /\ ctxcall' = [NoCall EXCEPT !.call = "set", !.name = f]
    /\ UNCHANGED <<made, scopes, unwinding>>
    /\ UNCHANGED <<conf, tree, schema, frames, exc, calls, status>>
    /\ UNCHANGED <<cmdVars, deltaVars, renameVars, compileVars,
                   resolveVars>>

\* suspend_dep_verification is entered
CtxSuspend ==
    /\ ~unwinding
    /\ Len(scopes) < MaxScopes
    /\ context' = suspend(context)
    /\ scopes' = Append(scopes, [kind |-> "suspend",
                                 flags |-> Flags(context.stack),
                                 dep_ver |-> context.disable_dep_verification])
    /\ ctxcall' = [NoCall EXCEPT !.call = "suspend"]
    /\ UNCHANGED <<made, unwinding>>
    /\ UNCHANGED <<conf, tree, schema, frames, exc, calls, status>>
    /\ UNCHANGED <<cmdVars, deltaVars, renameVars, compileVars,
                   resolveVars>>

\* the innermost with block is left: __exit__ pops the token, the finally
\* clause of suspend_dep_verification sets the flag to the value it saved
LeaveScope ==
    LET scope == scopes[Len(scopes)]
    IN  /\ scopes' = SubSeq(scopes, 1, Len(scopes) - 1)
        /\ IF scope.kind = "token"
           THEN /\ context' = [context EXCEPT !.stack = pop(@)]
                /\ ctxcall' = [NoCall EXCEPT !.call = "pop",
                                          !.result = current(context.stack).enable_recursion,
                                          !.flags = scope.flags,
                                          !.dep_ver = scope.dep_ver]
           ELSE /\ context' = resume(context, scope.dep_ver)
                /\ ctxcall' = [NoCall EXCEPT !.call = "resume",
                                          !.flags = scope.flags,
                                          !.dep_ver = scope.dep_ver]

\* the end of a with block is reached
CtxExit ==
    /\ ~unwinding
    /\ scopes # <<>>
    /\ LeaveScope
    /\ UNCHANGED <<made, unwinding>>
    /\ UNCHANGED <<conf, tree, schema, frames, exc, calls, status>>
    /\ UNCHANGED <<cmdVars, deltaVars, renameVars, compileVars,
                   resolveVars>>

\* the code of a with block raises an error
CtxRaise ==
    /\ ~unwinding
    /\ scopes # <<>>
    /\ unwinding' = TRUE
    /\ ctxcall' = [NoCall EXCEPT !.call = "raise"]
    /\ UNCHANGED <<made, scopes>>
    /\ UNCHANGED <<conf, tree, schema, context, frames, exc, calls, status>>
    /\ UNCHANGED <<cmdVars, deltaVars, renameVars, compileVars,
                   resolveVars>>

\* the error leaves the innermost with block
CtxUnwind ==
    /\ unwinding
    /\ scopes # <<>>
    /\ LeaveScope
    /\ UNCHANGED <<made, unwinding>>
    /\ UNCHANGED <<conf, tree, schema, frames, exc, calls, status>>
    /\ UNCHANGED <<cmdVars, deltaVars, renameVars, compileVars,
                   resolveVars>>

\* the error is caught by the code around the with block it has left
CtxCaught ==
    /\ unwinding
    /\ ctxcall.call \in {"pop", "resume"}
    /\ unwinding' = FALSE
    /\ ctxcall' = [NoCall EXCEPT !.call = "caught"]
    /\ UNCHANGED <<made, scopes>>
    /\ UNCHANGED <<conf, tree, schema, context, frames, exc, calls, status>>
    /\ UNCHANGED <<cmdVars, deltaVars, renameVars, compileVars,
                   resolveVars>>

\* a flag property is read
CtxReadFlag ==
    /\ ~unwinding
    /\ \E f \in FlagNames :
        ctxcall' = [NoCall EXCEPT !.call = "flag", !.name = f,
                               !.result = FlagProperty(context.stack, f)]
    /\ UNCHANGED <<made, scopes, unwinding>>
    /\ UNCHANGED <<conf, tree, schema, context, frames, exc, calls, status>>
    /\ UNCHANGED <<cmdVars, deltaVars, renameVars, compileVars,
                   resolveVars>>

\* in_deletion is called
CtxInDeletion ==
    /\ ~unwinding
    /\ \E k \in Offsets :
        ctxcall' = [NoCall EXCEPT !.call = "in_deletion", !.offset = k,
                               !.result = Str(in_deletion(context.stack, k))]
    /\ UNCHANGED <<made, scopes, unwinding>>
    /\ UNCHANGED <<conf, tree, schema, context, frames, exc, calls, status>>
    /\ UNCHANGED <<cmdVars, deltaVars, renameVars, compileVars,
                   resolveVars>>

\* get is called
CtxGet ==
    /\ ~unwinding
    /\ \E cls \in CtxClasses :
        ctxcall' = [NoCall EXCEPT !.call = "get", !.name = cls,
                                  !.token = get(context.stack, cls)]
    /\ UNCHANGED <<made, scopes, unwinding>>
    /\ UNCHANGED <<conf, tree, schema, context, frames, exc, calls, status>>
    /\ UNCHANGED <<cmdVars, deltaVars, renameVars, compileVars,
                   resolveVars>>

\* get_ancestor is called, without or with a command
CtxGetAncestor ==
    /\ ~unwinding
    /\ \E cls \in CtxClasses, op \in ScopeCmds \cup {None} :
        ctxcall' = [NoCall EXCEPT
                      !.call = "get_ancestor", !.name = cls, !.op = op,
                      !.token = get_ancestor(context.stack, cls, op)]
    /\ UNCHANGED <<made, scopes, unwinding>>
    /\ UNCHANGED <<conf, tree, schema, context, frames, exc, calls, status>>
    /\ UNCHANGED <<cmdVars, deltaVars, renameVars, compileVars,
                   resolveVars>>

ContextNext ==
    \/ CtxGet
    \/ CtxGetAncestor
    \/ CtxEnter
    \/ CtxSetFlag
    \/ CtxSuspend
    \/ CtxExit
    \/ CtxRaise
    \/ CtxUnwind
    \/ CtxCaught
    \/ CtxReadFlag
    \/ CtxInDeletion

SpecContext == ContextInit /\ [][ContextNext]_vars

(***************************************************************************)
(* SpecRename: the same RenameObject applied up to MaxRuns times in one    *)
(* context, to an object that owns some of P1, P2 and is referred to by    *)
(* some expressions.                                                       *)
(***************************************************************************)
\* the referrers get_expr_referrers yields, in its order
ExprRefChoices ==
    {<<>>, <<"ix">>, <<"ptr">>, <<"ix", "ptr">>, <<"ptr", "ix">>,
     <<"fn", "ptr">>, <<"ix", "ptr", "fn">>, <<"oth">>, <<"ix", "oth">>,
     <<"oth", "ix", "con">>, <<"con", "oth", "ptr">>}

OwnedChoices == {{}, {"P1"}, {"P1", "P2"}}

RenameInit ==
    /\ rconf \in [owned : OwnedChoices, expr_refs : ExprRefChoices,
                  canonical : BOOLEAN, illegal : BOOLEAN]
    /\ rschema = RenameSchema(rconf)
    /\ rcmd = NewRename
    /\ rctx = NewRenameContext
    /\ rrun = NewRun("idle")
    /\ cmd = EmptyCommand
    /\ lastcall = ""
    /\ callargs = <<>>
    /\ raised = "none"
    /\ onlyADR = TRUE
    /\ din = NoInput
    /\ dout = NotRun
    /\ conf = NoConf
    /\ tree = NoTree
    /\ schema = EmptySchema
    /\ context = NewContext(FALSE, FALSE)
    /\ frames = <<>>
    /\ exc = NoExc
    /\ calls = [c \in ApplyCmds |-> 0]
    /\ status = "off"
    /\ made = FALSE
    /\ scopes = <<>>
    /\ unwinding = FALSE
    /\ ctxcall = NoCall
    /\ CompileIdle
    /\ ResolveIdle

SpecRename == RenameInit /\ [][RenameNext]_vars

\* the statements: a statement with two nested statements, the first of
\* which has a nested statement of its own, or with three nested
\* statements, or a chain of four
AstStructures ==
    {[n1 |-> <<"n2", "n3">>, n2 |-> <<"n4">>, n3 |-> <<>>, n4 |-> <<>>],
     [n1 |-> <<"n2", "n3", "n4">>, n2 |-> <<>>, n3 |-> <<>>, n4 |-> <<>>],
     [n1 |-> <<"n2">>, n2 |-> <<"n3">>, n3 |-> <<"n4">>, n4 |-> <<>>]}

AstTypes ==
    {t \in [AstNodes -> {"CreateObjectType", "AlterObjectType", "Rename",
                         "SetField", "Unknown"}] :
        /\ t["n2"] \in {"CreateObjectType", "AlterObjectType", "Rename"}
        /\ t["n3"] \in {"SetField", "Rename", "Unknown"}
        /\ t["n4"] \in {"SetField", "CreateObjectType"}}

CompileInit ==
    /\ \E st \in AstStructures, t \in AstTypes, bad \in {"none", "n3", "n4"} :
         ast = [top |-> "n1",
                nodes |-> [n \in AstNodes |->
                    [type |-> t[n], field_ok |-> n # bad,
                     commands |-> st[n]]]]
    /\ cstack = <<>>
    /\ cframes = <<>>
    /\ built = [n \in AstNodes |-> <<>>]
    /\ cexc = "none"
    /\ cstatus = "idle"
    /\ cmd = EmptyCommand
    /\ lastcall = ""
    /\ callargs = <<>>
    /\ raised = "none"
    /\ onlyADR = TRUE
    /\ din = NoInput
    /\ dout = NotRun
    /\ conf = NoConf
    /\ tree = NoTree
    /\ schema = EmptySchema
    /\ context = NewContext(FALSE, FALSE)
    /\ frames = <<>>
    /\ exc = NoExc
    /\ calls = [c \in ApplyCmds |-> 0]
    /\ status = "off"
    /\ made = FALSE
    /\ scopes = <<>>
    /\ unwinding = FALSE
    /\ ctxcall = NoCall
    /\ RenameIdle
    /\ ResolveIdle

SpecCompile == CompileInit /\ [][CompileNext]_vars

ResolveInit ==
    /\ oname = "a"
    /\ oldnames = {}
    /\ ctxrenames = [n \in ObjNames |-> None]
    /\ attrval \in RawValues \cup {None}
    /\ ctxcache = None
    /\ rcall = NoRCall
    /\ nrenames = 0
    /\ cmd = EmptyCommand
    /\ lastcall = ""
    /\ callargs = <<>>
    /\ raised = "none"
    /\ onlyADR = TRUE
    /\ din = NoInput
    /\ dout = NotRun
    /\ conf = NoConf
    /\ tree = NoTree
    /\ schema = EmptySchema
    /\ context = NewContext(FALSE, FALSE)
    /\ frames = <<>>
    /\ exc = NoExc
    /\ calls = [c \in ApplyCmds |-> 0]
    /\ status = "off"
    /\ made = FALSE
    /\ scopes = <<>>
    /\ unwinding = FALSE
    /\ ctxcall = NoCall
    /\ RenameIdle
    /\ CompileIdle

SpecResolve == ResolveInit /\ [][ResolveNext]_vars



(***************************************************************************)
(* C1: after any sequence of add, discard and replace_all calls the        *)
(* attribute table maps a name n to a command c exactly when c is a        *)
(* set-attribute sub-command for n present in ops.                         *)
(***************************************************************************)
AttrTableMatchesOps ==
    \A c \in SetAttrCmds :
        (cmd.attrs[property(c)] = c) <=> InSeq(c, cmd.ops)

C1_AttrTableConsistent == onlyADR => AttrTableMatchesOps

(***************************************************************************)
(* The calls of apply in progress, for the claims about apply.             *)
(***************************************************************************)
\* the stack as call i of frames sees it: the stack its callee was called
\* with, or the context's stack when it is the innermost call
StackSeenBy(i) ==
    IF i = Len(frames) THEN context.stack ELSE frames[i + 1].stack0

\* the stack a call holds is the stack it was called with, under its own
\* token if it has pushed one; no token is left when no call is in progress
StackBalanced ==
    /\ \A i \in 1..Len(frames) :
        StackSeenBy(i) =
            IF frames[i].pushed
            THEN Append(frames[i].stack0,
                        Token(frames[i].schema0, frames[i].c))
            ELSE frames[i].stack0
    /\ frames = <<>> => context.stack = <<>>

\* the places of the begin, innards and finalize phases
PhasePcs == {"begin", "prereqs", "fragments", "innards"}

\* the innermost call runs a phase of a command of one of the kinds
InPhaseOf(kinds) ==
    /\ status = "running"
    /\ frames # <<>>
    /\ kind(Top.c) \in kinds
    /\ Top.pc \in PhasePcs

OwnTokenInnermost(kinds) ==
    InPhaseOf(kinds) =>
        /\ context.stack # <<>>
        /\ context.stack[Len(context.stack)].op = Top.c

DeleteInProgress(o) ==
    \E i \in 1..Len(frames) :
        /\ kind(frames[i].c) = "DeleteObject"
        /\ frames[i].pushed
        /\ classname(frames[i].c) = o

BlockingReferrers(o) ==
    {r \in Objects :
        /\ Exists(schema, r)
        /\ <<r, o>> \in conf.refs
        /\ <<r, o>> \in conf.blocking
        /\ ~DeleteInProgress(r)}

CanonicalInProgress ==
    \E i \in 1..Len(frames) :
        frames[i].pushed /\ frames[i].c \in conf.canonical

\* the innermost call is a Delete that has found its object and has
\* returned or raised
DeleteEnded ==
    /\ status = "running"
    /\ frames # <<>>
    /\ kind(Top.c) = "DeleteObject"
    /\ Top.pc # "apply"
    /\ (Top.pc = "return" \/ exc.type # "none")

(***************************************************************************)
(* C3 as stated: applying a Delete fails if and only if dependency         *)
(* verification is not suspended and the object has a referrer that is a   *)
(* blocking reference and is not itself being deleted; the failure lists   *)
(* every such referrer, and in every other case the object is removed      *)
(* from the returned schema.  Only a Delete whose begin and innards        *)
(* raised nothing and that took no if_unused return is held to it.         *)
(***************************************************************************)
C3_DeleteFailsIffBlocked ==
    (/\ DeleteEnded
     /\ ~Top.skip
     /\ exc.type # "none" => (exc.by = Top.c /\ exc.type = "SchemaError"))
        =>
        LET o == classname(Top.c)
            blocked == /\ ~context.disable_dep_verification
                       /\ BlockingReferrers(o) # {}
        IN  /\ (exc.type # "none") <=> blocked
            /\ exc.type # "none" => exc.refs = BlockingReferrers(o)
            /\ exc.type = "none" => ~Exists(schema, o)

(***************************************************************************)
(* C3 amended: the finalize phase of a Delete raises the dependency error  *)
(* if and only if no command of the context is canonical, dependency       *)
(* verification is not suspended and the object has a referrer that is a   *)
(* blocking reference and is not itself being deleted; the error lists     *)
(* every such referrer and the object stays; a finalize phase that does    *)
(* not raise removes the object from the schema.                           *)
(***************************************************************************)
C3_FinalizeFailsIffBlocked ==
    /\ (/\ DeleteEnded
        /\ exc.type = "SchemaError"
        /\ exc.by = Top.c)
            => /\ ~CanonicalInProgress
               /\ ~context.disable_dep_verification
               /\ exc.refs # {}
               /\ exc.refs = BlockingReferrers(classname(Top.c))
               /\ Exists(schema, classname(Top.c))
    /\ (/\ DeleteEnded
        /\ exc.type = "none"
        /\ ~Top.skip)
            => /\ ~Exists(schema, classname(Top.c))
               /\ \/ CanonicalInProgress
                  \/ context.disable_dep_verification
                  \/ BlockingReferrers(classname(Top.c)) = {}

\* the delete of C, nested in the delete of its referrer D, is refused
\* for its other blocking referrer alone
C3_Witness ==
    /\ DeleteEnded
    /\ exc.type = "SchemaError"
    /\ Top.c = "deC"
    /\ DeleteInProgress("D")
    /\ conf.blocking = {<<"D", "C">>, <<"E", "C">>}
    /\ exc.refs = {"E"}

(***************************************************************************)
(* C4: applying a non-canonical Delete with if_unused to an object that    *)
(* has a referrer returns the input schema unchanged, raises no error and  *)
(* removes the Delete from its parent command's sub-commands; none of its  *)
(* sub-commands is applied.  Only a Delete applied under the token of an   *)
(* enclosing command is held to it.                                        *)
(***************************************************************************)
\* the commands that held c when the tree was built
ParentsOf(c) ==
    {p \in ApplyCmds : InSeq(c, get_subcommands(conf.tree0[p]))}

C4_IfUnusedDiscardsFromParent ==
    \A i \in 1..Len(frames) :
        LET f == frames[i]
        IN  (/\ kind(f.c) = "DeleteObject"
             /\ f.pc # "apply"
             /\ f.c \notin conf.canonical
             /\ f.c \in conf.if_unused
             /\ f.stack0 # <<>>
             /\ get_referrers(f.schema0, classname(f.c)) # {})
                => /\ i = Len(frames)
                   /\ f.pc = "return"
                   /\ exc.type = "none"
                   /\ schema = f.schema0
                   /\ \A p \in ParentsOf(f.c) :
                        ~InSeq(f.c, get_subcommands(tree[p]))
                   /\ \A sub \in Range(get_subcommands(conf.tree0[f.c])) :
                        calls[sub] = 0

(***************************************************************************)
(* C5 as stated: applying a Create with if_not_exists for a name that      *)
(* already resolves to an object applies the Create's attribute settings   *)
(* to that object as an alteration, and the Create is discarded from its   *)
(* parent.  Only a Create applied under the token of an enclosing command  *)
(* is held to it.                                                          *)
(***************************************************************************)
\* the Create with if_not_exists of call i found its object in the schema
CreateFoundObject(i) ==
    /\ kind(frames[i].c) = "CreateObject"
    /\ frames[i].pc # "apply"
    /\ frames[i].c \in conf.if_not_exists
    /\ Exists(frames[i].schema0, classname(frames[i].c))

MatchedTriples == Range(dout.comparison_map)

HasCmd(c) == InSeq(c, dout.delta)

AltersOfNew(x) ==
    {i \in 1..Len(dout.delta) :
        dout.delta[i].action = "alter" /\ dout.delta[i].new = x}

AltersOfOld(y) ==
    {i \in 1..Len(dout.delta) :
        dout.delta[i].action = "alter" /\ dout.delta[i].old = y}

(***************************************************************************)
(* C6: a matched pair (new x, old y) whose similarity is exactly 0.6       *)
(* produces a Create for x and a Delete for y and no Alter, absent         *)
(* guidance bans.                                                          *)
(***************************************************************************)
C6_ThresholdIsCreateDelete ==
    (dout.ran /\ ~din.guidance.given) =>
        \A t \in MatchedTriples :
            t[3] = Threshold =>
                /\ HasCmd(CreateCmd(t[1]))
                /\ HasCmd(DeleteCmd(t[2]))
                /\ AltersOfNew(t[1]) = {}
                /\ AltersOfOld(t[2]) = {}

C6_Witness ==
    /\ dout.ran
    /\ \E t \in MatchedTriples : t[3] = Threshold
    /\ \E t \in MatchedTriples : IsAlter(t[3])

(***************************************************************************)
(* C7: a matched pair whose fingerprints differ but whose similarity is    *)
(* exactly 1.0 still produces an Alter command from y to x.                *)
(***************************************************************************)
C7_IdenticalStillAlters ==
    dout.ran =>
        \A t \in MatchedTriples :
            (t[3] = Identical /\ din.fp[t[1]] # din.fp[t[2]]) =>
                HasCmd(AlterCmd(t[2], t[1]))

(***************************************************************************)
(* C8: every matched pair with similarity strictly between 0.6 and 1.0     *)
(* yields exactly one Alter command and neither a Create for its new       *)
(* object nor a Delete for its old object; old = {A}, new = {A'} with      *)
(* similarity 0.9 yields a DeltaRoot holding a single Alter.               *)
(***************************************************************************)
C8_InRangeIsOneAlter ==
    dout.ran =>
        /\ \A t \in MatchedTriples :
            (Threshold < t[3] /\ t[3] < Identical) =>
                /\ HasCmd(AlterCmd(t[2], t[1]))
                /\ Cardinality(AltersOfNew(t[1])) = 1
                /\ Cardinality(AltersOfOld(t[2])) = 1
                /\ ~HasCmd(CreateCmd(t[1]))
                /\ ~HasCmd(DeleteCmd(t[2]))
        /\ (/\ din.old = <<"o1">>
            /\ din.new = <<"n1">>
            /\ din.fp = DistinctFp
            /\ din.sim[<<"n1", "o1">>] = 9)
                => dout.delta = <<AlterCmd("o1", "n1")>>

C8_Witness ==
    /\ dout.ran
    /\ Len(din.old) = 2
    /\ Len(din.new) = 2
    /\ Cardinality({t \in MatchedTriples : IsAlter(t[3])}) = 2

(***************************************************************************)
(* C9: the matched pairs are those of the reference procedure: sort all    *)
(* (new, old, score) triples by descending score, ties broken by           *)
(* ascending (new-name, old-name), and walk the list claiming a triple     *)
(* exactly when neither side has been claimed; so every new and every old  *)
(* object belongs to at most one matched pair.                             *)
(***************************************************************************)
RefTriples ==
    {<<x, y, similarity(din, x, y)>> :
        x \in Range(changedNew(din)), y \in Range(changedOld(din))}

\* a comes before b in the reference order
RefBefore(a, b) ==
    \/ a[3] > b[3]
    \/ /\ a[3] = b[3]
       /\ \/ din.name[a[1]] < din.name[b[1]]
          \/ din.name[a[1]] = din.name[b[1]] /\ din.name[a[2]] < din.name[b[2]]

RECURSIVE RefWalk(_, _)
RefWalk(remaining, claimed) ==
    IF remaining = {} THEN claimed
    ELSE LET first == CHOOSE t \in remaining :
                          \A u \in remaining \ {t} : RefBefore(t, u)
             free == /\ \A c \in claimed : c[1] # first[1]
                     /\ \A c \in claimed : c[2] # first[2]
         IN  RefWalk(remaining \ {first},
                     IF free THEN claimed \cup {first} ELSE claimed)

C9_GreedyMatchesReference ==
    dout.ran =>
        /\ MatchedTriples = RefWalk(RefTriples, {})
        /\ \A a, b \in MatchedTriples :
            (a[1] = b[1] \/ a[2] = b[2]) => a = b

\* two triples tie on the score and compete for the same old object
C9_Witness ==
    /\ dout.ran
    /\ \E a, b \in RefTriples :
        /\ a # b
        /\ a[3] = b[3]
        /\ a[2] = b[2]
        /\ a \in MatchedTriples
    /\ Cardinality(MatchedTriples) = 2

(***************************************************************************)
(* C10: when two candidate pairs tie on the similarity score and compete   *)
(* for the same old object, the pair whose new object's name exists in     *)
(* both the old and the new set is matched in preference to a pair whose   *)
(* new object's name exists only on the new side.                          *)
(***************************************************************************)
C10_CommonNamePreferred ==
    dout.ran =>
        \A a, b \in RefTriples :
            (/\ a[2] = b[2]
             /\ a[3] = b[3]
             /\ IsAlter(a[3])
             /\ din.name[a[1]] \in common_names(din)
             /\ din.name[b[1]] \notin common_names(din)
             /\ b \in MatchedTriples)
                => \E t \in MatchedTriples : t[1] = a[1] /\ t[3] >= a[3]

(***************************************************************************)
(* C11: delta_objects is deterministic: a second run on the same old and   *)
(* new objects, schemas and guidance returns the same sequence of          *)
(* commands, and with pairs of equal similarity the matching does not      *)
(* depend on the order in which the pairs came to the sort.                *)
(***************************************************************************)
\* full_matrix.sort on the pairs in another order
SortedMatrixOf(in, m) ==
    Vals(StableSort([i \in 1..Len(m) |->
                        [key |-> MatrixKey(in, m[i]), val |-> m[i]]]))

\* two candidate pairs of one new object with the same similarity
TiedPairs(in) ==
    {p \in Range(full_matrix_unsorted(in)) \X Range(full_matrix_unsorted(in)) :
        /\ p[1] # p[2]
        /\ p[1][1] = p[2][1]
        /\ p[1][3] = p[2][3]}

FpOf(in, objs) == {in.fp[o] : o \in Range(objs)}

\* the hash criteria the schema holds after the commands are applied: a
\* Create adds its object, a Delete removes its object, an Alter turns
\* the old object into the new one
RECURSIVE ApplyDelta(_, _, _)
ApplyDelta(in, fps, commands) ==
    IF commands = <<>> THEN fps
    ELSE LET c == Head(commands)
             next == CASE c.action = "create" -> fps \cup {in.fp[c.new]}
                       [] c.action = "delete" -> fps \ {in.fp[c.old]}
                       [] OTHER -> (fps \ {in.fp[c.old]}) \cup {in.fp[c.new]}
         IN  ApplyDelta(in, next, Tail(commands))

C12_RoundTrip ==
    dout.ran =>
        ApplyDelta(din, FpOf(din, din.old), dout.delta) = FpOf(din, din.new)

(***************************************************************************)
(* C15: delta_objects emits no command for an object whose hash criteria   *)
(* occur in both the old and the new set, and such an object takes no      *)
(* part in the similarity matching.                                        *)
(***************************************************************************)
\* the objects given whose hash criteria occur on both sides
UnchangedObjects(in) ==
    {o \in Range(in.old) \cup Range(in.new) :
        /\ in.fp[o] \in FpOf(in, in.old)
        /\ in.fp[o] \in FpOf(in, in.new)}

C15_UnchangedDropped ==
    dout.ran =>
        \A o \in UnchangedObjects(din) :
            /\ \A c \in Range(dout.delta) : c.old # o /\ c.new # o
            /\ \A t \in Range(dout.comparison_map) : t[1] # o /\ t[2] # o

\* n1 and o1 are unchanged and would have matched; the others are altered
C15_Witness ==
    /\ dout.ran
    /\ UnchangedObjects(din) = {"n1", "o1"}
    /\ din.sim[<<"n1", "o1">>] = 9
    /\ \E c \in Range(dout.delta) : c.action = "alter"

(***************************************************************************)
(* The order of the commands of one action in the delta, for the claims    *)
(* about inheritance.                                                      *)
(***************************************************************************)
\* the place in the delta of the command of the given action for an object
CmdIndex(action, o) ==
    CHOOSE i \in 1..Len(dout.delta) :
        /\ dout.delta[i].action = action
        /\ (IF action = "delete" THEN dout.delta[i].old
                                 ELSE dout.delta[i].new) = o

\* the objects the delta has a command of the given action for
CmdObjects(action) ==
    {IF action = "delete" THEN c.old ELSE c.new :
        c \in {d \in Range(dout.delta) : d.action = action}}

\* b is among the bases of o, their bases, and so on, within the objects S
RECURSIVE HasBase(_, _, _, _)
HasBase(S, o, b, n) ==
    /\ n > 0
    /\ \E m \in Range(din.bases[o]) \cap S :
        m = b \/ HasBase(S, m, b, n - 1)

\* d is derived from b among the objects S, and they are on no cycle
DerivedFrom(S, d, b) ==
    /\ d \in S
    /\ b \in S
    /\ d # b
    /\ HasBase(S, d, b, Cardinality(S))
    /\ ~HasBase(S, b, d, Cardinality(S))

(***************************************************************************)
(* C13: the Delete commands of inheritance-capable objects are emitted so  *)
(* that the Delete of a derived object comes before the Delete of each of  *)
(* its bases that is also deleted.                                         *)
(***************************************************************************)
C13_DerivedDeletedBeforeBases ==
    (dout.ran /\ din.inheriting) =>
        \A d, b \in CmdObjects("delete") :
            (b \in Range(din.bases[d]) /\ DerivedFrom(Range(deleted(din, dout.comparison_map)), d, b))
                => CmdIndex("delete", d) < CmdIndex("delete", b)

(***************************************************************************)
(* C14: the Alter commands of inheritance-capable objects are emitted so   *)
(* that the Alter of a matched new object comes after the Alter of each    *)
(* of its bases that is also altered; every matched pair in the range has  *)
(* its one Alter, also when the objects are on a cycle or have bases that  *)
(* are not among the matched objects.                                      *)
(***************************************************************************)
\* the new objects of the comparison_map
MatchedNew == {t[1] : t \in Range(dout.comparison_map)}

C14_BasesAlteredBeforeDerived ==
    (dout.ran /\ din.inheriting) =>
        /\ \A x, b \in CmdObjects("alter") :
            (b \in Range(din.bases[x]) /\ DerivedFrom(MatchedNew, x, b))
                => CmdIndex("alter", b) < CmdIndex("alter", x)
        /\ \A t \in Range(dout.comparison_map) :
            IsAlter(t[3]) =>
                Cardinality({i \in 1..Len(dout.delta) :
                                dout.delta[i] = AlterCmd(t[2], t[1])}) = 1

\* n1 is derived from n2, both are altered, and n1 was matched first
C14_Witness ==
    /\ dout.ran
    /\ din.inheriting
    /\ din.bases["n1"] = <<"n2">>
    /\ din.bases["n2"] = <<"n3">>
    /\ {"n1", "n2"} \subseteq CmdObjects("alter")
    /\ dout.comparison_map[1][1] = "n1"

\* n1 and n2 are on a cycle, n3 is derived from n1, and all are altered
C14_WitnessCycle ==
    /\ dout.ran
    /\ din.inheriting
    /\ din.bases["n1"] = <<"n2">>
    /\ din.bases["n2"] = <<"n1">>
    /\ CmdObjects("alter") = {"n1", "n2", "n3"}

(***************************************************************************)
(* C16: guidance bans are honoured: a pair of (old name, new name) in      *)
(* banned_alters scores exactly 0.0 and yields no Alter, a new object      *)
(* whose name is in banned_creations yields no Create, and an old object   *)
(* whose name is in banned_deletions yields no Delete.                     *)
(***************************************************************************)
C16_BansHonoured ==
    (dout.ran /\ din.guidance.given) =>
        /\ \A v \in Range(full_matrix(din)) :
            <<din.name[v[2]], din.name[v[1]]>> \in din.guidance.banned_alters
                => v[3] = 0
        /\ \A c \in Range(dout.delta) :
            /\ c.action = "alter" =>
                <<din.name[c.old], din.name[c.new]>>
                    \notin din.guidance.banned_alters
            /\ c.action = "create" =>
                din.name[c.new] \notin din.guidance.banned_creations
            /\ c.action = "delete" =>
                din.name[c.old] \notin din.guidance.banned_deletions

\* compare gives 0.9 for a banned pair, and an object whose creation is
\* banned and one whose deletion is banned are left without a match
C16_Witness ==
    /\ dout.ran
    /\ din.guidance.banned_alters = {<<1, 1>>}
    /\ \E x \in Range(din.new), y \in Range(din.old) :
        /\ din.name[x] = 1
        /\ din.name[y] = 1
        /\ din.sim[<<x, y>>] = 9
    /\ \E x \in Range(created(din, dout.comparison_map)) :
        din.name[x] \in din.guidance.banned_creations
    /\ \E y \in Range(deleted(din, dout.comparison_map)) :
        din.name[y] \in din.guidance.banned_deletions

(***************************************************************************)
(* C17: after a token that overrides a flag was pushed and popped again,   *)
(* every flag property of the context returns the value it returned        *)
(* before the push, whatever the stack held before.                        *)
(***************************************************************************)
C17_PopRestoresFlags ==
    ctxcall.call = "pop" => Flags(context.stack) = ctxcall.flags

\* a token with enable_recursion False was popped from over another token
\* and enable_recursion is back to its default, True
C17_Witness ==
    /\ ctxcall.call = "pop"
    /\ ctxcall.result = "False"
    /\ context.stack # <<>>
    /\ ctxcall.flags["enable_recursion"] = "True"
    /\ enable_recursion(context.stack) = "True"

(***************************************************************************)
(* C18: each flag property returns the override of the innermost token     *)
(* whose override is not absent, and the default when no token overrides   *)
(* it: True for enable_recursion, False for transient_derivation, absent   *)
(* for the others; a False of an inner token shadows a True further out.   *)
(***************************************************************************)
\* the tokens of the stack that override the flag
Overriding(f) == {i \in 1..Len(context.stack) : context.stack[i][f] # None}

FlagDefault(f) ==
    CASE f = "enable_recursion" -> "True"
      [] f = "transient_derivation" -> "False"
      [] OTHER -> None

C18_InnermostOverrideOrDefault ==
    ctxcall.call = "flag" =>
        LET f == ctxcall.name
        IN  IF Overriding(f) = {} THEN ctxcall.result = FlagDefault(f)
            ELSE \E i \in Overriding(f) :
                    /\ \A j \in Overriding(f) : j <= i
                    /\ ctxcall.result = context.stack[i][f]

\* enable_recursion is read under an outer True and an inner False
C18_Witness ==
    /\ ctxcall.call = "flag"
    /\ ctxcall.name = "enable_recursion"
    /\ Len(context.stack) = 2
    /\ context.stack[1].enable_recursion = "True"
    /\ context.stack[2].enable_recursion = "False"
    /\ ctxcall.result = "False"

(***************************************************************************)
(* C19: in_deletion called with its default offset 0 returns True exactly  *)
(* when at least one token of the stack belongs to a Delete command.       *)
(***************************************************************************)
C19_InDeletionSeesDeletes ==
    (ctxcall.call = "in_deletion" /\ ctxcall.offset = 0) =>
        ctxcall.result =
            Str(\E i \in 1..Len(context.stack) :
                    kind(context.stack[i].op) = "DeleteObject")

(***************************************************************************)
(* C20: suspend_dep_verification sets disable_dep_verification to true     *)
(* for the duration of its scope, and on every way out of the scope, at    *)
(* its end or by an error, nested or not, the flag gets the value it had   *)
(* when the scope was entered.                                             *)
(***************************************************************************)
SuspendScopes == {i \in 1..Len(scopes) : scopes[i].kind = "suspend"}

C20_SuspendRestores ==
    /\ SuspendScopes # {} => context.disable_dep_verification
    /\ SuspendScopes = {} => context.disable_dep_verification = made
    /\ ctxcall.call = "resume" =>
            context.disable_dep_verification = ctxcall.dep_ver

\* an error has left the inner of two nested scopes of a context made
\* with the verification on
C20_Witness ==
    /\ unwinding
    /\ ctxcall.call = "resume"
    /\ ~made
    /\ Len(scopes) = 1
    /\ scopes[1].kind = "suspend"
    /\ context.disable_dep_verification

\* the outer scope was left too, and the verification is on again
C20_WitnessRestored ==
    /\ ctxcall.call = "resume"
    /\ ~made
    /\ scopes = <<>>
    /\ ~context.disable_dep_verification

(***************************************************************************)
(* C21: get(kind) returns the innermost token of the stack whose type is   *)
(* the context class of the kind, or nothing when there is none;           *)
(* get_ancestor(kind) without a command searches the same way below the    *)
(* top frame, and get_ancestor(kind, op) returns the innermost matching    *)
(* token that is not owned by the command op.                              *)
(***************************************************************************)
\* the places of the tokens of the class asked for, among the places given
Matching(places) ==
    {i \in places : isinstance(context.stack[i], ctxcall.name)}

\* the token returned is the one at the highest of the places, or None
ReturnedInnermostOf(places) ==
    IF places = {} THEN ctxcall.token = NoToken
    ELSE \E i \in places :
            /\ \A j \in places : j <= i
            /\ ctxcall.token = context.stack[i]

C21_GetReturnsInnermost ==
    /\ ctxcall.call = "get" =>
            ReturnedInnermostOf(Matching(1..Len(context.stack)))
    /\ (ctxcall.call = "get_ancestor" /\ ctxcall.op = None) =>
            ReturnedInnermostOf(Matching(1..(Len(context.stack) - 1)))
    /\ (ctxcall.call = "get_ancestor" /\ ctxcall.op # None) =>
            ReturnedInnermostOf(
                {i \in Matching(1..Len(context.stack)) :
                    context.stack[i].op # ctxcall.op})

\* get_ancestor passes over the token of deC on top and returns the one of
\* alB beneath, an ObjectCommandContext as well
C21_Witness ==
    /\ ctxcall.call = "get_ancestor"
    /\ ctxcall.name = "ObjectCommandContext"
    /\ ctxcall.op = "deC"
    /\ Len(context.stack) = 2
    /\ context.stack[2].op = "deC"
    /\ context.stack[1].op = "alB"
    /\ ctxcall.token = context.stack[1]

(***************************************************************************)
(* C22: during apply of a Create, Alter, Delete or plain group command     *)
(* every prerequisite (before_ops) is applied, and is applied before any   *)
(* ordinary sub-command (ops) of the same command.                         *)
(***************************************************************************)
\* the call on top of the stack is about to return from a command of one
\* of the four kinds
ReturnsFrom(kinds) == Running /\ Finished(Top) /\ kind(Top.c) \in kinds

PrereqKinds == {"CreateObject", "AlterObject", "DeleteObject", "CommandGroup"}

\* the prerequisites the command on top was built with
BuiltPrerequisites == Range(conf.tree0[Top.c].before_ops)

\* no prerequisite is applied after a command that is none
PrerequisitesFirst ==
    \A i, j \in 1..Len(Top.applied) :
        (i < j /\ Top.applied[j] \in BuiltPrerequisites)
            => Top.applied[i] \in BuiltPrerequisites

C22_WitnessDelete ==
    /\ ReturnsFrom({"DeleteObject"})
    /\ Top.c = "deD"
    /\ ~Top.skip
    /\ conf.tree0["deD"].before_ops = <<"s3", "deC">>
    /\ Top.applied = <<"deC">>

BuiltSubcommands ==
    conf.tree0[Top.c].before_ops \o conf.tree0[Top.c].ops

\* the four passes of DeltaRoot.apply over a tuple of commands
ModulesFirst(commands) ==
    SelectSeq(commands, IsCreateModule)
        \o SelectSeq(commands, IsAlterModule)
        \o SelectSeq(commands, LAMBDA c : /\ ~IsCreateModule(c)
                                           /\ ~IsAlterModule(c)
                                           /\ ~IsDeleteCollectionType(c))
        \o SelectSeq(commands, IsDeleteCollectionType)

C23_WitnessGroup ==
    /\ ReturnsFrom({"CommandGroup"})
    /\ Top.applied = <<"crM", "deC", "crA", "alB">>

(***************************************************************************)
(* The container calls as steps: the command before the call is cmd, the   *)
(* command after it cmd', the call and its arguments lastcall' and          *)
(* callargs'.                                                              *)
(***************************************************************************)
\* the step is a call of one of the methods named, with one command
Called(methods, c) == lastcall' \in methods /\ callargs' = <<c>>

\* the set-attribute commands for the property of c among the commands
SettersLike(commands, c) ==
    {s \in Range(commands) : IsSetAttr(s) /\ property(s) = property(c)}

(***************************************************************************)
(* C24: after add(s2) or prepend(s2) of a set-attribute command on a       *)
(* command whose sub-commands hold a different set-attribute command s1    *)
(* for the same name, s1 is replaced: the sub-commands contain exactly one *)
(* set-attribute command for the name, s2.                                 *)
(***************************************************************************)
C24_SetterReplaced ==
    [][\A s2 \in SetAttrCmds :
        (/\ Called({"add", "prepend"}, s2)
         /\ SettersLike(cmd.ops, s2) \ {s2} # {})
            => SettersLike(cmd'.ops, s2) = {s2}]_vars

(***************************************************************************)
(* C25: add(g) and prepend(g) of a group command g never nest g: the       *)
(* children of g are spliced into ops in their original relative order,    *)
(* at the end for add and at the front for prepend; add_prerequisite and   *)
(* prepend_prerequisite do the same into before_ops.                       *)
(***************************************************************************)
\* s ends with t / s begins with t
EndsWith(s, t) ==
    Len(t) <= Len(s) /\ SubSeq(s, Len(s) - Len(t) + 1, Len(s)) = t

BeginsWith(s, t) == Len(t) <= Len(s) /\ SubSeq(s, 1, Len(t)) = t

\* the members of s that are / are not members of t, in the order of s
Within(s, t) == SelectSeq(s, LAMBDA e : InSeq(e, t))

Outside(s, t) == SelectSeq(s, LAMBDA e : ~InSeq(e, t))

\* the statement as it stands
C25_GroupSpliced ==
    [][\A g \in GroupCmds :
        LET children == GroupSubcommands(g)
        IN  /\ Called({"add"}, g) =>
                /\ ~InSeq(g, cmd'.ops)
                /\ EndsWith(cmd'.ops, children)
            /\ Called({"prepend"}, g) =>
                /\ ~InSeq(g, cmd'.ops)
                /\ BeginsWith(cmd'.ops, children)
            /\ Called({"add_prerequisite"}, g) =>
                /\ ~InSeq(g, cmd'.before_ops)
                /\ EndsWith(cmd'.before_ops, children)
            /\ Called({"prepend_prerequisite"}, g) =>
                /\ ~InSeq(g, cmd'.before_ops)
                /\ BeginsWith(cmd'.before_ops, children)]_vars

\* the group is never nested; add and add_prerequisite append the children
\* that are not members yet and leave the others where they are, prepend
\* and prepend_prerequisite put all the children at the front
C25_GroupSplicedNewAtEnd ==
    [][\A g \in GroupCmds :
        LET children == GroupSubcommands(g)
        IN  /\ Called({"add"}, g) =>
                /\ ~InSeq(g, cmd'.ops)
                /\ cmd'.ops = cmd.ops \o Outside(children, cmd.ops)
                /\ cmd'.before_ops = cmd.before_ops
            /\ Called({"prepend"}, g) =>
                /\ ~InSeq(g, cmd'.ops)
                /\ cmd'.ops = children \o Outside(cmd.ops, children)
                /\ cmd'.before_ops = cmd.before_ops
            /\ Called({"add_prerequisite"}, g) =>
                /\ ~InSeq(g, cmd'.before_ops)
                /\ cmd'.before_ops =
                        cmd.before_ops \o Outside(children, cmd.before_ops)
                /\ cmd'.ops = cmd.ops
            /\ Called({"prepend_prerequisite"}, g) =>
                /\ ~InSeq(g, cmd'.before_ops)
                /\ cmd'.before_ops =
                        children \o Outside(cmd.before_ops, children)
                /\ cmd'.ops = cmd.ops]_vars

\* prepend(g1) has put s2 and c1 in front of s3 and s1
C25_Witness ==
    /\ lastcall = "prepend"
    /\ callargs = <<"g1">>
    /\ cmd.ops = <<"s2", "c1", "s3", "s1">>

\* add(g1) has appended s2; c1 was a member and stays in front
C25_WitnessKept ==
    /\ lastcall = "add"
    /\ callargs = <<"g1">>
    /\ cmd.ops = <<"c1", "s3", "s2">>

(***************************************************************************)
(* C26: after discard(c) the command c is in neither ops nor before_ops    *)
(* and the attribute table maps no name to c, while every other            *)
(* sub-command and every table entry that refers to another command is     *)
(* unchanged; discarding a command that is no sub-command, or a            *)
(* set-attribute command that is not the registered setter of its name,    *)
(* changes nothing and raises no error.                                    *)
(***************************************************************************)
C26_DiscardRemovesOnlyTheCommand ==
    [][\A c \in LeafCmds :
        Called({"discard"}, c) =>
            /\ raised' = "none"
            /\ cmd'.ops = Without(cmd.ops, c)
            /\ cmd'.before_ops = Without(cmd.before_ops, c)
            /\ \A n \in PropNames :
                /\ cmd'.attrs[n] # c
                /\ cmd.attrs[n] # c => cmd'.attrs[n] = cmd.attrs[n]]_vars

(***************************************************************************)
(* C27: replace(old, new) puts new at the position old had in ops and      *)
(* leaves the order of the other sub-commands unchanged; replace_all(cmds) *)
(* makes the ordinary sub-commands exactly cmds in the given order; after  *)
(* either call the attribute lookup of every name returns the              *)
(* set-attribute command now present in ops for that name.  replace is     *)
(* held to it when old is a sub-command and new is none, replace_all when  *)
(* no command of cmds is a group.                                          *)
(***************************************************************************)
\* the table of c names, for every property, a setter of it that is in the
\* ops of c, or nothing when ops holds no setter of it
LookupReturnsSetterInOps(c) ==
    \A n \in PropNames :
        LET setters == {s \in Range(c.ops) : IsSetAttr(s) /\ property(s) = n}
        IN  IF setters = {} THEN c.attrs[n] = None
            ELSE c.attrs[n] \in setters

\* new stands where old stood
PositionKept ==
    /\ Len(cmd'.ops) = Len(cmd.ops)
    /\ \A i \in 1..Len(cmd.ops) :
        cmd'.ops[i] = IF cmd.ops[i] = callargs'[1] THEN callargs'[2]
                      ELSE cmd.ops[i]

C27_ReplaceKeepsOrderAndLookup ==
    [][/\ (/\ lastcall' = "replace"
           /\ InSeq(callargs'[1], cmd.ops)
           /\ ~InSeq(callargs'[2], cmd.ops))
            => /\ raised' = "none"
               /\ PositionKept
               /\ LookupReturnsSetterInOps(cmd')
       /\ (/\ lastcall' = "replace_all"
           /\ \A c \in Range(callargs') : ~IsGroup(c))
            => /\ cmd'.ops = callargs'
               /\ LookupReturnsSetterInOps(cmd')]_vars

(***************************************************************************)
(* C28: once apply begins the command tree is frozen: for every command    *)
(* of the tree, ops, before_ops and the attribute table are the same       *)
(* after apply has returned or failed as they were before it was called.   *)
(***************************************************************************)
C28_TreeFrozen ==
    status \in {"returned", "raised"} =>
        \A c \in ApplyCmds :
            /\ tree[c].ops = conf.tree0[c].ops
            /\ tree[c].before_ops = conf.tree0[c].before_ops
            /\ tree[c].attrs = conf.tree0[c].attrs

(***************************************************************************)
(* C29: the rename cascade is built once for a command and a context: a    *)
(* second invocation through the same Rename in the same context yields    *)
(* no further cascade commands, so the Rename never holds two cascaded     *)
(* Alter/Rename sub-commands for the same owned object, also when it is    *)
(* applied twice.                                                          *)
(***************************************************************************)
\* the cascaded commands the Rename holds for the owned object r
CascadedFor(r) ==
    {i \in 1..Len(rcmd.ops) :
        rcmd.ops[i].kind = "alter" /\ rcmd.ops[i].ref = r}

C29_CascadeBuiltOnce ==
    /\ rrun.canonicalized <= 1
    /\ \A r \in OwnedRefs : Cardinality(CascadedFor(r)) <= 1

\* the Rename of an object that owns P1 and P2 has returned from its
\* second apply and holds one cascaded command for each
C29_Witness ==
    /\ rrun.pc = "returned"
    /\ rrun.runs = 2
    /\ rrun.canonicalized = 1
    /\ \A r \in OwnedRefs : Cardinality(CascadedFor(r)) = 1

(***************************************************************************)
(* C30: when a Rename finds several index, pointer or function             *)
(* expressions that depend on the object, a restoration is deferred for    *)
(* each and every one is replayed in the finalize phase of the command:    *)
(* after apply returns each dependent has its index, expression or body    *)
(* back.                                                                   *)
(***************************************************************************)
C30_EveryRestorationReplayed ==
    rrun.pc = "returned" =>
        \A d \in Range(rconf.expr_refs) : rschema.deps[d] = "intact"

(***************************************************************************)
(* C31: if an expression that depends on the object being renamed belongs  *)
(* to something other than an index, a pointer or a function, the          *)
(* operation fails with an error that names every such dependent           *)
(* expression, whatever rewritable dependents exist besides and in         *)
(* whatever order the dependents are visited.                              *)
(***************************************************************************)
\* the referrers of the run that no rewrite is known for
Unrewritable == {d \in Range(rconf.expr_refs) : d \in {"oth", "con"}}

C31_UnrewritableRefsAllNamed ==
    (~rconf.illegal /\ Unrewritable # {}) =>
        /\ rrun.pc \notin {"innards", "returned"}
        /\ rrun.pc = "raised" =>
            /\ rrun.exc = "SchemaDefinitionError"
            /\ rrun.ref_desc = Unrewritable

\* the run with the referrers oth, ix and con has failed naming oth and con
C31_Witness ==
    /\ rrun.pc = "raised"
    /\ rconf.expr_refs = <<"oth", "ix", "con">>
    /\ rrun.ref_desc = {"oth", "con"}
    /\ rschema.deps["ix"] = "dropped"

(***************************************************************************)
(* C32: the begin of a Create runs its steps in the stated order: the      *)
(* legality check and the prerequisites come before the if_not_exists      *)
(* short-circuit is evaluated, so a Create with if_not_exists on an        *)
(* existing object of a read-only module still fails the legality check,   *)
(* and its prerequisites have been applied when it short-circuits.         *)
(***************************************************************************)
C32_ShortCircuitAfterBegin ==
    (Running /\ kind(Top.c) = "CreateObject" /\ Top.skip) =>
        /\ ~Illegal(Top.c)
        /\ BuiltPrerequisites \subseteq Range(Top.applied)

\* the commands _canonicalize added to a Delete that has run _delete_begin
Synthesized(c) ==
    Range(get_subcommands(tree[c])) \ Range(get_subcommands(conf.tree0[c]))

\* the sub-objects a Delete's object owns that no explicit Delete
\* sub-command of it names
OwnedNotDeleted(c, sch, scls) ==
    {o \in Objects :
        /\ <<scls, o>> \in Owned
        /\ Exists(sch, o)
        /\ \A op \in Range(get_subcommands(conf.tree0[c])) :
              ~(kind(op) = "DeleteObject" /\ classname(op) = o)}

\* a Delete applied outside a canonical context has left _delete_begin
BegunDelete ==
    /\ Running
    /\ kind(Top.c) = "DeleteObject"
    /\ Top.pc = "innards"
    /\ ~canonical(context.stack)

\* C33: after _delete_begin of a non-canonical Delete, every owned
\* sub-object that no explicit Delete sub-command names has exactly one
\* synthesized Delete among the command's sub-commands
C33_ImplicitDeletePerOwned ==
    BegunDelete =>
        \A o \in OwnedNotDeleted(Top.c, Top.schema0, Top.scls) :
            Cardinality({op \in Synthesized(Top.c) :
                /\ kind(op) = "DeleteObject"
                /\ classname(op) = o}) = 1

\* the part of C33 that holds: a sub-object that no sub-command of any
\* kind names gets exactly one synthesized Delete and nothing else is
\* synthesized
C33_ImplicitDeletePerUnnamed ==
    BegunDelete =>
        /\ \A o \in ImplicitRefs(conf.tree0[Top.c], Top.schema0, Top.scls) :
              Cardinality({op \in Synthesized(Top.c) :
                  /\ kind(op) = "DeleteObject"
                  /\ classname(op) = o}) = 1
        /\ \A op \in Synthesized(Top.c) :
              classname(op) \in
                  ImplicitRefs(conf.tree0[Top.c], Top.schema0, Top.scls)

\* the Delete of D has synthesized the Delete of the pointer D owns
C33_Witness ==
    /\ BegunDelete
    /\ Top.c = "deD"
    /\ Synthesized("deD") = {"imC"}

\* compile_ddl has just been called on a sub-statement
SubStatementStarts ==
    /\ cstatus = "running"
    /\ cexc = "none"
    /\ Len(cframes) >= 2
    /\ CTop.pc = "enter"

\* the call whose loop compiles the sub-statement
Enclosing == cframes[Len(cframes) - 1]

\* the innermost call in progress that pushed a token
InnermostPushed ==
    LET I == {i \in 1..(Len(cframes) - 1) : cframes[i].pushed}
    IN  cframes[CHOOSE i \in I : \A j \in I : j <= i]

\* the innermost token was pushed by the call f and holds its command
TokenOf(f) ==
    /\ cstack # <<>>
    /\ current(cstack).id = f.node
    /\ current(cstack).op = f.node

\* the sub-commands made from the sub-statements are in source order
InSourceOrder(n) ==
    SelectSeq(built[n], LAMBDA c : c \in AstNodes) = ast.nodes[n].commands

\* every token on the stack belongs to a call in progress
TokensBalanced ==
    /\ Len(cstack) = Cardinality({i \in 1..Len(cframes) : cframes[i].pushed})
    /\ cstatus \in {"returned", "raised"} => cstack = <<>>

AttachedInOrder ==
    /\ (CompileAt("return") /\ cmdcls_of(CTop.node) # "AlterObjectProperty")
          => InSourceOrder(CTop.node)
    /\ cstatus = "returned" => InSourceOrder(ast.top)

\* C34 as stated: while the sub-statements of a node are compiled the
\* innermost token is the one pushed for the enclosing command and holds
\* it, the sub-commands are attached in source order and the token is
\* popped on return and on error
C34_TokenOfEnclosingCommand ==
    /\ SubStatementStarts => TokenOf(Enclosing)
    /\ AttachedInOrder
    /\ TokensBalanced

\* C34 amended: the same for an enclosing command whose class has a context
\* class; a command whose class has none (a RenameObject) pushes no token
\* and its sub-statements see the token of the innermost enclosing command
\* that pushed one
C34_TokenOfEnclosingContext ==
    /\ SubStatementStarts =>
          /\ Enclosing.pushed
                <=> cls_context_class(cmdcls_of(Enclosing.node)) # None
          /\ TokenOf(InnermostPushed)
    /\ AttachedInOrder
    /\ TokensBalanced

\* a sub-statement two levels down starts under the token of its
\* enclosing Create or Alter
C34_Witness ==
    /\ SubStatementStarts
    /\ Len(cframes) = 3
    /\ Enclosing.pushed
    /\ TokenOf(Enclosing)
    /\ Len(cstack) = 2

\* an error two levels down has left every with block
C34_WitnessError ==
    /\ cstatus = "raised"
    /\ cexc = "SchemaDefinitionError"
    /\ ast.nodes["n1"].commands = <<"n2">>
    /\ cstack = <<>>

\* the call frames[i] is the apply of an Alter with if_exists whose target
\* was missing, and the call has acted
IfExistsAlterOnMissing(i) ==
    LET f == frames[i]
    IN  /\ kind(f.c) = "AlterObject"
        /\ f.c \in conf.if_exists
        /\ ~Exists(f.schema0, classname(f.c))
        /\ \/ f.pc # "apply"
           \/ i = Len(frames) /\ exc.type # "none" /\ exc.by = f.c

\* the call frames[i] returns the schema it was given, without an error,
\* and its command is no sub-command of the commands that held it
SkippedAndDiscarded(i) ==
    LET f == frames[i]
    IN  /\ i = Len(frames)
        /\ f.pc = "return"
        /\ exc.type = "none"
        /\ schema = f.schema0
        /\ \A p \in ParentsOf(f.c) : ~InSeq(f.c, get_subcommands(tree[p]))

\* C35: an Alter with if_exists whose target does not exist returns the
\* input schema, raises nothing and is removed from the enclosing
\* command, in every context
C35_IfExistsSkipsEverywhere ==
    \A i \in 1..Len(frames) :
        IfExistsAlterOnMissing(i) => SkippedAndDiscarded(i)

\* the same under the token of an enclosing command, outside a canonical
\* context
C35_IfExistsSkipsUnderToken ==
    \A i \in 1..Len(frames) :
        (/\ IfExistsAlterOnMissing(i)
         /\ frames[i].stack0 # <<>>
         /\ ~\E j \in 1..Len(frames[i].stack0) :
                frames[i].stack0[j].op \in conf.canonical)
            => SkippedAndDiscarded(i)

\* the skipped Alter under a DeltaRoot
C35_Witness ==
    /\ Running
    /\ IfExistsAlterOnMissing(Len(frames))
    /\ SkippedAndDiscarded(Len(frames))
    /\ Top.c = "alB"

\* the Alter applied on an empty stack
C35_WitnessKeyError ==
    /\ frames # <<>>
    /\ IfExistsAlterOnMissing(Len(frames))
    /\ exc.type = "KeyError"

\* the Alter applied in a canonical context
C35_WitnessCanonical ==
    /\ frames # <<>>
    /\ IfExistsAlterOnMissing(Len(frames))
    /\ exc.type = "InvalidReferenceError"
    /\ canonical(context.stack)

\* creates come before alters, alters before deletes
ActionRank(c) ==
    CASE c.action = "create" -> 1
      [] c.action = "alter" -> 2
      [] c.action = "delete" -> 3

\* C36: the DeltaRoot returned by delta_objects lists all its Create
\* commands first, then all its Alter commands, then all its Delete
\* commands
C36_CreatesAltersDeletes ==
    dout.ran =>
        \A i, j \in 1..Len(dout.delta) :
            i < j => ActionRank(dout.delta[i]) <= ActionRank(dout.delta[j])

\* a delta with a create, an alter and a delete
C36_Witness ==
    /\ dout.ran
    /\ {dout.delta[i].action : i \in 1..Len(dout.delta)}
          = {"create", "alter", "delete"}

\* how many times the loops of the innermost call applied the command x
TimesApplied(x) ==
    Cardinality({i \in 1..Len(Top.applied) : Top.applied[i] = x})

\* the sub-commands of c, prerequisites included, that are no plain
\* attribute setters
NonSetters(c) ==
    {x \in Range(get_subcommands(conf.tree0[c])) :
        kind(x) # "AlterObjectProperty"}

\* C37: when the apply of an Alter returns, each of its sub-commands that
\* is not a plain attribute setter has been applied exactly once
C37_EachSubcommandOnce ==
    (ReturnsFrom({"AlterObject"}) /\ ~Top.skip) =>
        \A x \in NonSetters(Top.c) : TimesApplied(x) = 1

\* the same for the sub-commands that are not fragments held as
\* prerequisites
C37_EachOnceButPrerequisiteFragments ==
    (ReturnsFrom({"AlterObject"}) /\ ~Top.skip) =>
        \A x \in NonSetters(Top.c) :
            IF /\ kind(x) = "AlterObjectFragment"
               /\ InSeq(x, conf.tree0[Top.c].before_ops)
            THEN TimesApplied(x) = 2
            ELSE TimesApplied(x) = 1

\* the Alter whose prerequisite is a fragment returns
C37_Witness ==
    /\ ReturnsFrom({"AlterObject"})
    /\ Top.c = "alB"
    /\ conf.tree0["alB"].before_ops = <<"frB">>
    /\ Top.applied = <<"frB", "frB">>

\* C38: once a command's finalize phase is over the context holds no
\* deferred restoration for it, and an apply of the command that finds no
\* dependent expression restores none
C38_RestorationReplayedOnce ==
    /\ rrun.pc = "returned" => rctx.affected_finalization = None
    /\ (rrun.pc = "returned" /\ ~rrun.found)
          => \A d \in ExprRefs : rschema.deps[d] # "intact"

\* the second apply found no dependent expression and has restored the
\* expression the first one had dropped
C38_StaleReplay ==
    /\ rrun.pc = "returned"
    /\ rrun.runs = 2
    /\ ~rrun.found
    /\ rctx.affected_finalization # None
    /\ rschema.deps[rctx.affected_finalization] = "intact"

\* the last call was get_object for a name the object had and has no more
StaleLookup ==
    /\ rcall.method = "get_object"
    /\ rcall.arg \in oldnames

\* C39: after any sequence of renames applied in one context, a command
\* whose target name is a stale name of the object resolves to the object
C39_StaleNameResolves ==
    StaleLookup => rcall.result = "obj"

\* the same after a single rename, and for every stale name the rename
\* table maps to the name the object has
C39_StaleNameResolvesInOneStep ==
    /\ (StaleLookup /\ nrenames = 1) => rcall.result = "obj"
    /\ (StaleLookup /\ ctxrenames[rcall.arg] = oname)
            => rcall.result = "obj"

\* after the chain a to b, b to c the name b resolves to the object
C39_Witness ==
    /\ StaleLookup
    /\ ctxrenames["a"] = "b"
    /\ ctxrenames["b"] = "c"
    /\ oname = "c"
    /\ rcall.arg = "b"
    /\ rcall.result = "obj"

\* after the chain a to b, b to c the name a resolves to nothing
C39_WitnessChain ==
    /\ StaleLookup
    /\ ctxrenames["a"] = "b"
    /\ ctxrenames["b"] = "c"
    /\ oname = "c"
    /\ rcall.arg = "a"
    /\ rcall.result = None

\* C40: the value get_resolved_attribute_value returns is the resolution
\* of the command's current raw attribute value
C40_ResolvedFollowsRaw ==
    rcall.method = "get_resolved_attribute_value" =>
        rcall.result =
            IF attrval = None THEN None ELSE _resolve_attr_value(attrval)

\* the value returned is the resolution of the raw value the attribute
\* had at the first resolution in the context
C40_ResolvedIsFirstResolution ==
    (rcall.method = "get_resolved_attribute_value" /\ attrval # None)
        => /\ rcall.result = ctxcache
           /\ ctxcache \in {_resolve_attr_value(v) : v \in RawValues}

\* the attribute was set again after it was resolved and the old
\* resolution is returned
C40_WitnessStale ==
    /\ rcall.method = "get_resolved_attribute_value"
    /\ attrval = "v2"
    /\ rcall.result = "resolved_v1"

====
